---------------------------- MODULE Spec2Model ----------------------------
(***************************************************************************)
(* A model of the terminal-streaming core of webmux (backend-rust):        *)
(*   - Utf8StreamDecoder            (src/terminal_buffer.rs)               *)
(*   - OptimizedTerminalBuffer      (src/buffer/mod.rs)                    *)
(*   - OptimizedClientManager       (src/websocket/optimized.rs)           *)
(*   - OptimizedSessionManager      (src/websocket/optimized_session_      *)
(*                                   manager.rs)                           *)
(*   - TerminalRingBuffer           (src/terminal_buffer.rs)               *)
(*   - TerminalDeltaTracker         (src/terminal_delta.rs)                *)
(*   - TmuxControlMode              (src/tmux_control.rs)                  *)
(* Each component has its own specification (SpecUtf8, SpecBuf, ...); the  *)
(* variables of the other components stay in their idle state.             *)
(***************************************************************************)
EXTENDS Integers, Sequences, FiniteSets, TLC

VARIABLES
    \* ---- Utf8StreamDecoder
    stream,        \* the whole byte stream that is delivered in chunks
    fed,           \* number of bytes of stream handed to decode_chunk so far
    incomplete,    \* Utf8StreamDecoder.incomplete
    decoded,       \* concatenation of the Strings returned so far (as bytes)
    chunkLens,     \* lengths of the chunks handed over so far
    \* ---- OptimizedTerminalBuffer (the buffer the writer holds)
    storage,       \* storage: Arc<RwLock<BytesMut>>, shared with every clone
    write_pos,     \* write_pos: AtomicUsize of the writer's buffer
    read_positions,\* read_positions: DashMap<String, usize> of the writer's buffer
    bufStats,      \* stats of the writer's buffer
    lastWrite,     \* result of the latest write call
    lastLen,       \* data.len() of the latest write call
    \* ---- BufferReader r (each owns a clone of the buffer)
    rState,        \* "none" (not created or dropped), "ready", "checked"
                   \* (read_next found no data), "waiting" (in notified()),
                   \* "woken"
    rWritePos,     \* write_pos of the reader's clone
    rReadPositions,\* read_positions of the reader's clone
    last_read_pos, \* BufferReader.last_read_pos
    rLocalWp,      \* read_next's local write_pos, loaded before it waited
    lastRet,       \* what the reader's latest read call returned
    \* ---- history of the buffer
    written,       \* every byte appended so far, in write order
    attachAt,      \* Len(written) when the reader was created
    received,      \* the bytes returned to the reader since it was created
    fresh,         \* what happened last for the reader: a read, or a
                   \* compaction followed by a read
    compacted,     \* a compaction ran since the reader's latest read
    \* ---- OptimizedClientManager, one ClientConnection
    permits,       \* available permits of ClientConnection.permits
    chanLen,       \* messages queued in the client's mpsc channel
    backpressure_events,  \* PerformanceStats.backpressure_events
    sendPc,        \* position of each send_to_client call
    sendAvail,     \* available_permits as read by the call (line 161)
    sendFailed,    \* messages dropped because try_send failed
    \* ---- input queue of one SharedTmuxSession and its processor loop
    queue,         \* InputQueue.queue
    dimensions,    \* SharedTmuxSession.dimensions
    procPc,        \* "tick": waiting for the ticker; "batch": holds the
                   \* queue mutex and drains a batch
    text_buffer,   \* input_processor_loop's text_buffer
    commands_processed,   \* input_processor_loop's commands_processed
    inStats,       \* SessionStats.total_inputs and input_errors
    issued,        \* the external calls made so far, in issue order
    enqueued,      \* every command enqueued so far, in arrival order
    \* ---- OptimizedSessionManager
    sessions,      \* sessions: DashMap<String, Arc<RwLock<SharedTmuxSession>>>,
                   \* as name -> session object (0: no entry)
    nObjs,         \* SharedTmuxSession objects created so far (1..nObjs)
    sName,         \* SharedTmuxSession.name of each object
    sClients,      \* SharedTmuxSession.clients of each object (client ids)
    capture_task,  \* SharedTmuxSession.capture_task: "None" or "Some"
    capState,      \* the object's capture_loop task: "unborn", "tick",
                   \* "capturing" (in capture_pane), "aborted", "exited"
    consecutive_errors,   \* capture_loop's consecutive_errors
    last_content_hash,    \* capture_loop's last_content_hash
    sBufUsed,      \* bytes stored in the session's buffer
    capPermits,    \* available permits of capture_semaphore
    unserved,      \* history: the clients pushed onto the list that no
                   \* broadcast pass has sent a screen to since
    emptiedByPrune,\* history: the capture loop removed the list's last
                   \* client and none was pushed since
    nInputLoops,   \* input_processor_loop tasks spawned, per session name
    tmuxSessions,  \* the names tmux has a session for
    createCalls,   \* tmux::create_session calls made, per session name
    opPc,          \* position of each client's current manager call
    opName,        \* session name of the client's current call
    got,           \* the session object the client's call works on
    needCreate,    \* get_or_create_session decided to call create_session
    nCalls,        \* add and remove calls started so far
    idleTasks,     \* the idle-removal tasks spawned by
                   \* remove_client_from_session, with the seconds left
                   \* of their sleep
    \* ---- history of the session manager
    graceLeft,     \* seconds left of the grace period that began when
                   \* remove_client_from_session emptied the object's
                   \* client list (0: none running)
    emptiedByRemove,  \* a finished remove_client_from_session found the
                   \* object's list empty and no client was added since
    pushedTo,      \* the object onto whose list the client's last
                   \* add_client_to_session pushed it (0: none)
    callInGrace,   \* the client's get_or_create_session started within the
                   \* grace period of the session object graceObj
    graceObj,
    disconnected,  \* capture_loop's disconnected: the positions in the list
                   \* at which the sends of the broadcast pass failed
    failedClients,    \* history: the clients at those positions during the pass
    \* ---- TerminalRingBuffer and its TerminalReaders
    chunks,        \* chunks: ArrayQueue<TerminalChunk>, shared by the buffer
                   \* and every reader (a chunk is its sequence number)
    sequence,      \* sequence: AtomicU64, the next sequence number
    ring_write_pos,\* TerminalRingBuffer.write_pos
    wPc,           \* position of the write call: "idle", "push", "evict",
                   \* "notify"
    wSeq,          \* the sequence number of the chunk being written
    lastRingWrite, \* result of the latest TerminalRingBuffer::write
    tPc,           \* position of each reader: "none" (not created), "idle",
                   \* "scan", "requeue", "checked", "waiting", "woken"
    tKind,         \* the reader's current call: "read_next" or "try_read_next"
    tLeft,         \* iterations left of the reader's scan loop
    tHeld,         \* the chunk the reader popped and is about to re-queue
    last_sequence, \* TerminalReader.last_sequence
    tReturned,     \* history: the chunks returned to the reader, in order
    tEarly,        \* history: the reader was made before the first write
    evicted,       \* history: the chunks the writer popped from the full queue
    requeueFailed, \* history: a reader failed to push a chunk back
    \* ---- TerminalDeltaTracker
    client_snapshots,  \* client_snapshots: DashMap<String, TerminalSnapshot>
    lastDelta,     \* what the latest compute_delta returned
    lastCall,      \* history: the latest call (operation, client, the
                   \* snapshot stored for it before the call, new snapshot,
                   \* whether remove_client had dropped the client's state)
    dropped,       \* history: the clients whose snapshot remove_client
                   \* removed and that made no compute_delta call since
    mirror,        \* each client's copy of the screen, built from the
                   \* deltas compute_delta returned for it
    \* ---- TmuxControlMode
    cmd_id,        \* cmd_id: Arc<Mutex<u64>>
    pending,       \* pending: DashMap<u64, oneshot::Sender<String>>, as
                   \* command id -> the caller that holds the receiver
    stdinOwner,    \* the caller that holds the stdin mutex
    ctlPc,         \* position of each caller's send_command: "idle",
                   \* "locking", "waiting", "expired"
    ctlId,         \* the call's cmd_id
    ctlWaited,     \* seconds the call has waited for its response
    rxFrom,        \* the call's oneshot channel: 0 when empty, else the id
                   \* of the line whose data was sent over it
    wrote,         \* history: times each command id was written to tmux
    answered,      \* history: the lines tmux emitted
    unmatched,     \* history: the lines the reader found no entry for
    outcome,       \* history: what send_command returned for each id
    \* ---- parse_terminal_output
    pTokens,       \* the input, as the pieces it is put together from
    pAt,           \* the number of pieces before the place of insertion
    pEsc,          \* the escape sequence that is put in
    pPlain,        \* the snapshot returned for the input
    pWith,         \* the snapshot returned for the input with pEsc put in
    \* ---- combine_terminal_outputs
    clientBatch,   \* the messages grouped for one client
    combinedOut    \* what combine_terminal_outputs returned for them

utfVars == <<stream, fed, incomplete, decoded, chunkLens>>

bufVars == <<storage, write_pos, read_positions, bufStats, lastWrite,
             lastLen,
             rState, rWritePos, rReadPositions, last_read_pos, rLocalWp,
             lastRet, written, attachAt, received, fresh, compacted>>

cliVars == <<permits, chanLen, backpressure_events, sendPc, sendAvail,
             sendFailed>>

inVars == <<queue, dimensions, procPc, text_buffer, commands_processed,
            inStats, issued, enqueued>>

mgrVars == <<sessions, nObjs, sName, pushedTo, sClients, capture_task, capState,
             consecutive_errors, last_content_hash, sBufUsed, capPermits,
             nInputLoops, tmuxSessions, createCalls, opPc, opName, got,
             needCreate, nCalls, idleTasks, graceLeft, emptiedByRemove,
             callInGrace, graceObj, disconnected, failedClients, unserved,
             emptiedByPrune>>

ringVars == <<chunks, sequence, ring_write_pos, wPc, wSeq, lastRingWrite,
              tPc, tKind, tLeft, tHeld, last_sequence, tReturned,
              tEarly, evicted, requeueFailed>>

deltaVars == <<client_snapshots, lastDelta, lastCall, dropped, mirror>>

ctlVars == <<cmd_id, pending, stdinOwner, ctlPc, ctlId, ctlWaited, rxFrom,
             wrote, answered, unmatched, outcome>>

parseVars == <<pTokens, pAt, pEsc, pPlain, pWith>>

combineVars == <<clientBatch, combinedOut>>

vars == <<utfVars, bufVars, cliVars, inVars, mgrVars, ringVars, deltaVars,
          ctlVars, parseVars, combineVars>>

(***************************************************************************)
(* Generic helpers                                                         *)
(***************************************************************************)
Min(a, b) == IF a < b THEN a ELSE b

\* usize::saturating_sub
SatSub(a, b) == IF a > b THEN a - b ELSE 0

\* slice[from..] of a sequence, 0-based start as in Rust
SliceFrom(s, from) == SubSeq(s, from + 1, Len(s))

\* slice[..to] of a sequence
SliceTo(s, to) == SubSeq(s, 1, to)

(***************************************************************************)
(* UTF-8 validation as done by std::str::from_utf8 (simdutf8::basic agrees *)
(* with it on validity; the code falls back to std for the error offset).  *)
(***************************************************************************)
IsCont(b) == b >= 128 /\ b <= 191

\* UTF8_CHAR_WIDTH of the lead byte: 0 for a byte that cannot start a character
Utf8Width(b) ==
    IF b < 128 THEN 1
    ELSE IF b >= 194 /\ b <= 223 THEN 2
    ELSE IF b >= 224 /\ b <= 239 THEN 3
    ELSE IF b >= 240 /\ b <= 244 THEN 4
    ELSE 0

\* the second byte's admissible range depends on the lead byte
SecondOk(lead, b) ==
    IF lead = 224 THEN b >= 160 /\ b <= 191
    ELSE IF lead = 237 THEN b >= 128 /\ b <= 159
    ELSE IF lead = 240 THEN b >= 144 /\ b <= 191
    ELSE IF lead = 244 THEN b >= 128 /\ b <= 143
    ELSE IsCont(b)

\* length of the well-formed character starting at 1-based index i of s,
\* 0 when the bytes at i are invalid or the character is cut off by the end
CharLenAt(s, i) ==
    LET w == Utf8Width(s[i])
    IN  IF w = 0 THEN 0
        ELSE IF i + w - 1 > Len(s) THEN 0
        ELSE IF w = 1 THEN 1
        ELSE IF ~SecondOk(s[i], s[i + 1]) THEN 0
        ELSE IF \A k \in 2..(w - 1) : IsCont(s[i + k]) THEN w
        ELSE 0

RECURSIVE ValidFrom(_, _)
\* number of leading bytes of s that are valid UTF-8, scanning from index i
ValidFrom(s, i) ==
    IF i > Len(s) THEN Len(s)
    ELSE LET n == CharLenAt(s, i)
         IN  IF n = 0 THEN i - 1 ELSE ValidFrom(s, i + n)

\* Utf8Error::valid_up_to (Len(s) when from_utf8 returns Ok)
ValidUpTo(s) == ValidFrom(s, 1)

(***************************************************************************)
(* Utf8StreamDecoder::decode_chunk                                         *)
(***************************************************************************)
\* mutant: forgets that the first bytes of combined came from the saved tail
ProcessedAfterPrefix_NoAdjust(valid_up_to, inc_len) == valid_up_to

\* line 189: processed = valid_up_to.saturating_sub(self.incomplete.len())
ProcessedAfterPrefix(valid_up_to, inc_len) == SatSub(valid_up_to, inc_len)

\* lines 163-196: the saved tail combined with up to 4 bytes of the input
DecodeCarry(inc, input) ==
    LET combined == inc \o SliceTo(input, Min(Len(input), 4))
        v == ValidUpTo(combined)
    IN  IF inc = <<>>
        THEN [result |-> <<>>, processed |-> 0, incomplete |-> inc]
        ELSE IF v = Len(combined)
        THEN [result |-> combined,
              processed |-> Len(combined) - Len(inc),
              incomplete |-> <<>>]
        ELSE IF v > 0
        THEN [result |-> SliceTo(combined, v),
              processed |-> ProcessedAfterPrefix(v, Len(inc)),
              incomplete |-> <<>>]
        ELSE [result |-> <<>>, processed |-> 0, incomplete |-> inc]

\* lines 158-233; returns the String (as bytes), the processed count and the
\* decoder's new incomplete field
decode_chunk(inc, input) ==
    LET c == DecodeCarry(inc, input)
        remaining == SliceFrom(input, c.processed)
        v == ValidUpTo(remaining)
        incomplete_start == c.processed + v
    IN  IF v = Len(remaining)
        THEN [result |-> c.result \o remaining,
              processed |-> Len(input),
              incomplete |-> c.incomplete]
        ELSE [result |-> c.result \o SliceTo(remaining, v),
              processed |-> Len(input),
              incomplete |-> IF incomplete_start < Len(input)
                             THEN SliceFrom(input, incomplete_start)
                             ELSE c.incomplete]

\* ---- bounds of the decoder specification
MaxChars == 3      \* characters per stream
MaxChunks == 4     \* decode_chunk calls per stream

\* one character of each encoded length: "A", U+00E9, U+20AC, U+1F600
Utf8Chars == { <<65>>, <<195, 169>>, <<226, 130, 172>>, <<240, 159, 152, 128>> }

RECURSIVE StreamsOf(_)
StreamsOf(n) ==
    IF n = 0 THEN { <<>> }
    ELSE LET shorter == StreamsOf(n - 1)
         IN  shorter \cup { s \o c : s \in shorter, c \in Utf8Chars }

ValidStreams == StreamsOf(MaxChars)

\* decoding of the whole stream by one call on a fresh decoder
WholeDecode(s) == decode_chunk(<<>>, s).result

UtfIdle ==
    /\ stream = <<>>
    /\ fed = 0
    /\ incomplete = <<>>
    /\ decoded = <<>>
    /\ chunkLens = <<>>

UtfInit ==
    /\ stream \in ValidStreams
    /\ fed = 0
    /\ incomplete = <<>>
    /\ decoded = <<>>
    /\ chunkLens = <<>>

\* one decode_chunk call on the next n bytes of the stream
DecodeChunk ==
    /\ Len(chunkLens) < MaxChunks
    /\ \E n \in 0..(Len(stream) - fed) :
          LET r == decode_chunk(incomplete, SubSeq(stream, fed + 1, fed + n))
          IN  /\ decoded' = decoded \o r.result
              /\ incomplete' = r.incomplete
              /\ fed' = fed + n
              /\ chunkLens' = Append(chunkLens, n)
    /\ UNCHANGED stream
    /\ UNCHANGED <<bufVars, cliVars, inVars, mgrVars,
                   ringVars, deltaVars, ctlVars,
                   parseVars, combineVars>>

NextUtf8 == DecodeChunk


(***************************************************************************)
(* Claims about the decoder                                                *)
(***************************************************************************)
\* C3: for a valid UTF-8 stream delivered in any number of chunks of any
\* sizes, once the whole stream has been delivered the concatenation of the
\* decoded outputs equals the decoding of the whole stream.
C3_AnyChunkingEqualsWhole ==
    fed = Len(stream) => decoded = WholeDecode(stream)

\* C4: for a valid UTF-8 sequence split at any byte offset k into two
\* decode_chunk calls, the concatenated outputs equal the decoding of the
\* whole sequence in one call.
C4_TwoWaySplitEqualsWhole ==
    (Len(chunkLens) = 2 /\ fed = Len(stream)) => decoded = WholeDecode(stream)

\* a 4-byte character was cut after its 2nd byte and the two calls are done
C4_Witness ==
    /\ stream = <<65, 240, 159, 152, 128, 65>>
    /\ chunkLens = <<3, 3>>
    /\ decoded = stream

\* C33: after every decode_chunk call the saved incomplete tail is at most
\* 4 bytes long and holds no complete well-formed character.
C33_TailIsShortAndIncomplete ==
    /\ Len(incomplete) <= 4
    /\ \A i \in 1..Len(incomplete) : CharLenAt(incomplete, i) = 0

(***************************************************************************)
(* OptimizedTerminalBuffer and BufferReader (src/buffer/mod.rs)            *)
(***************************************************************************)
\* ---- bounds of the buffer specification
MaxSize == 4       \* max_size handed to OptimizedTerminalBuffer::new
MaxWrites == 3     \* write calls per behaviour

ReaderIds == {"r1", "r2"}

\* the lengths a write is tried with: up to one more than max_size / 2
WriteLens == 1..((MaxSize \div 2) + 1)

\* the n bytes of the next write; a byte is tagged with its index in the
\* stream of all bytes written, so that loss, duplication and reordering of
\* bytes are visible
NewData(n) == [i \in 1..n |-> Len(written) + i]

None == [some |-> FALSE, data |-> <<>>]
Some(d) == [some |-> TRUE, data |-> d]

\* the smallest value of a non-empty set of numbers
SetMin(S) == CHOOSE x \in S : \A y \in S : x <= y

\* lines 91-95: the minimum over the map's values, 0 for an empty map
MinReadPos(positions) ==
    IF DOMAIN positions = {} THEN 0
    ELSE SetMin({positions[k] : k \in DOMAIN positions})

\* lines 89-109 compact_buffer: the new storage, map and write position
CompactBuffer(st, positions, wp) ==
    LET min_read_pos == MinReadPos(positions)
    IN  IF min_read_pos > 0
        THEN [storage |-> SliceFrom(st, min_read_pos),
              read_positions |->
                  [k \in DOMAIN positions |-> SatSub(positions[k], min_read_pos)],
              write_pos |-> wp - min_read_pos]
        ELSE [storage |-> st, read_positions |-> positions, write_pos |-> wp]

\* line 53 / line 58: the data does not fit
Overflows(st, n) == Len(st) + n > MaxSize

\* mutant: the clone shares the writer's position instead of copying it
CloneWritePos_Live(r) == write_pos

\* lines 124-135 Clone: write_pos is a new AtomicUsize holding the value
\* the writer's position had when the reader was created (kept in rWritePos)
CloneWritePos(r) == rWritePos[r]

BufIdle ==
    /\ storage = <<>>
    /\ write_pos = 0
    /\ read_positions = <<>>
    /\ bufStats = [bytes_written |-> 0, messages_written |-> 0, overruns |-> 0]
    /\ lastWrite = "none"
    /\ lastLen = 0
    /\ rState = [r \in ReaderIds |-> "none"]
    /\ rWritePos = [r \in ReaderIds |-> 0]
    /\ rReadPositions = [r \in ReaderIds |-> <<>>]
    /\ last_read_pos = [r \in ReaderIds |-> 0]
    /\ rLocalWp = [r \in ReaderIds |-> 0]
    /\ lastRet = [r \in ReaderIds |-> None]
    /\ written = <<>>
    /\ attachAt = [r \in ReaderIds |-> 0]
    /\ received = [r \in ReaderIds |-> <<>>]
    /\ fresh = [r \in ReaderIds |-> "none"]
    /\ compacted = [r \in ReaderIds |-> FALSE]

\* OptimizedTerminalBuffer::new
BufInit == BufIdle

readerVars == <<rState, rWritePos, rReadPositions, last_read_pos, rLocalWp,
                lastRet, attachAt, received, fresh, compacted>>

\* mutant: a write of exactly max_size / 2 bytes is rejected too
TooLarge_Inclusive(n) == n >= MaxSize \div 2

\* line 46: data.len() > self.max_size / 2, in usize arithmetic
TooLarge(n) == n > MaxSize \div 2

\* mutant: the overrun is not counted
CountOverrun_Missing(stats) == stats

\* line 59: overruns.fetch_add(1)
CountOverrun(stats) == [stats EXCEPT !.overruns = @ + 1]

\* lines 45-48: a write of more than max_size / 2 bytes
WriteTooLarge(n) ==
    /\ TooLarge(n)
    /\ lastWrite' = "DataTooLarge"
    /\ lastLen' = n
    /\ UNCHANGED <<storage, write_pos, read_positions, bufStats, written,
                   readerVars>>

\* lines 50-76: a write of at most max_size / 2 bytes
WriteFits(n) ==
    /\ ~TooLarge(n)
    /\ lastLen' = n
    /\ LET needs == Overflows(storage, n)
           c == IF needs
                THEN CompactBuffer(storage, read_positions, write_pos)
                ELSE [storage |-> storage, read_positions |-> read_positions,
                      write_pos |-> write_pos]
       IN  /\ compacted' = [r \in ReaderIds |->
                               compacted[r] \/ (needs /\ rState[r] # "none")]
           /\ read_positions' = c.read_positions
           /\ IF Overflows(c.storage, n)
              THEN /\ storage' = c.storage
                   /\ write_pos' = c.write_pos
                   /\ bufStats' = CountOverrun(bufStats)
                   /\ lastWrite' = "BufferFull"
                   /\ UNCHANGED <<written, rState, fresh>>
              ELSE /\ storage' = c.storage \o NewData(n)
                   /\ write_pos' = Len(storage')
                   /\ bufStats' = [bufStats EXCEPT
                                      !.bytes_written = @ + n,
                                      !.messages_written = @ + 1]
                   /\ lastWrite' = "Ok"
                   /\ written' = written \o NewData(n)
                   \* notify_waiters: every reader waiting in notified()
                   /\ rState' = [r \in ReaderIds |->
                                    IF rState[r] = "waiting" THEN "woken"
                                    ELSE rState[r]]
                   /\ fresh' = [r \in ReaderIds |-> "none"]
    /\ UNCHANGED <<rWritePos, rReadPositions, last_read_pos, rLocalWp,
                   lastRet, attachAt, received>>

\* OptimizedTerminalBuffer::write
Write ==
    /\ bufStats.messages_written + bufStats.overruns < MaxWrites
    /\ \E n \in WriteLens : WriteTooLarge(n) \/ WriteFits(n)
    /\ UNCHANGED <<utfVars, cliVars, inVars, mgrVars,
                   ringVars, deltaVars, ctlVars,
                   parseVars, combineVars>>

\* lines 79-86 create_reader, with the clone of lines 124-135
CreateReader(r) ==
    /\ rState[r] = "none"
    /\ read_positions' = [k \in DOMAIN read_positions \cup {r} |->
                             IF k = r THEN 0 ELSE read_positions[k]]
    /\ rReadPositions' = [rReadPositions EXCEPT ![r] = read_positions']
    /\ rWritePos' = [rWritePos EXCEPT ![r] = write_pos]
    /\ last_read_pos' = [last_read_pos EXCEPT ![r] = 0]
    /\ rState' = [rState EXCEPT ![r] = "ready"]
    /\ rLocalWp' = [rLocalWp EXCEPT ![r] = 0]
    /\ lastRet' = [lastRet EXCEPT ![r] = None]
    /\ attachAt' = [attachAt EXCEPT ![r] = Len(written)]
    /\ received' = [received EXCEPT ![r] = <<>>]
    /\ fresh' = [fresh EXCEPT ![r] = "none"]
    /\ compacted' = [compacted EXCEPT ![r] = FALSE]
    /\ UNCHANGED <<storage, write_pos, bufStats, lastWrite, lastLen,
                   written>>
    /\ UNCHANGED <<utfVars, cliVars, inVars, mgrVars,
                   ringVars, deltaVars, ctlVars,
                   parseVars, combineVars>>

\* lines 157-169 / 180-192: copy storage[last_read_pos..wp], move the cursor
\* in the reader and in the map of the reader's clone
TakeData(r, wp) ==
    LET data == SubSeq(storage, last_read_pos[r] + 1, wp)
    IN  /\ lastRet' = [lastRet EXCEPT ![r] = Some(data)]
        /\ received' = [received EXCEPT ![r] = @ \o data]
        /\ last_read_pos' = [last_read_pos EXCEPT ![r] = wp]
        /\ rReadPositions' = [rReadPositions EXCEPT ![r] =
               [k \in DOMAIN @ \cup {r} |-> IF k = r THEN wp ELSE @[k]]]

\* the reader's call returned: it is the first one after a compaction or not
MarkRead(r) ==
    /\ fresh' = [fresh EXCEPT ![r] =
                    IF compacted[r] THEN "read_after_compaction" ELSE "read"]
    /\ compacted' = [compacted EXCEPT ![r] = FALSE]

\* lines 173-193 try_read_next
TryReadNext(r) ==
    /\ rState[r] = "ready"
    /\ LET wp == CloneWritePos(r)
       IN  IF last_read_pos[r] >= wp
           THEN /\ lastRet' = [lastRet EXCEPT ![r] = None]
                /\ UNCHANGED <<received, last_read_pos, rReadPositions>>
           ELSE TakeData(r, wp)
    /\ MarkRead(r)
    /\ UNCHANGED <<storage, write_pos, read_positions, bufStats, lastWrite,
                   lastLen,
                   written, rState, rWritePos, rLocalWp, attachAt>>
    /\ UNCHANGED <<utfVars, cliVars, inVars, mgrVars,
                   ringVars, deltaVars, ctlVars,
                   parseVars, combineVars>>

\* lines 145-148 and 157-169 read_next: data is there, or the reader goes on
\* to wait for a notification ("checked": it has not yet called notified())
ReadNextBegin(r) ==
    /\ rState[r] = "ready"
    /\ LET wp == CloneWritePos(r)
       IN  IF last_read_pos[r] >= wp
           THEN /\ rState' = [rState EXCEPT ![r] = "checked"]
                /\ rLocalWp' = [rLocalWp EXCEPT ![r] = wp]
                /\ UNCHANGED <<lastRet, received, last_read_pos,
                               rReadPositions, fresh, compacted>>
           ELSE /\ TakeData(r, wp)
                /\ MarkRead(r)
                /\ UNCHANGED <<rState, rLocalWp>>
    /\ UNCHANGED <<storage, write_pos, read_positions, bufStats, lastWrite,
                   lastLen,
                   written, rWritePos, attachAt>>
    /\ UNCHANGED <<utfVars, cliVars, inVars, mgrVars,
                   ringVars, deltaVars, ctlVars,
                   parseVars, combineVars>>

\* line 150: notified() creates the future that a later notify_waiters
\* wakes; a notify_waiters that ran before this point left nothing behind
ReadNextWait(r) ==
    /\ rState[r] = "checked"
    /\ rState' = [rState EXCEPT ![r] = "waiting"]
    /\ UNCHANGED <<storage, write_pos, read_positions, bufStats, lastWrite,
                   lastLen,
                   written, rWritePos, rReadPositions, last_read_pos,
                   rLocalWp, lastRet, attachAt, received, fresh, compacted>>
    /\ UNCHANGED <<utfVars, cliVars, inVars, mgrVars,
                   ringVars, deltaVars, ctlVars,
                   parseVars, combineVars>>

\* lines 151-169 read_next after the notification: the position is loaded
\* again for the test only; the slice still ends at the first load (the
\* second write_pos is local to the if block)
ReadNextResume(r) ==
    /\ rState[r] = "woken"
    /\ IF last_read_pos[r] >= CloneWritePos(r)
       THEN /\ lastRet' = [lastRet EXCEPT ![r] = None]
            /\ UNCHANGED <<received, last_read_pos, rReadPositions>>
       ELSE TakeData(r, rLocalWp[r])
    /\ MarkRead(r)
    /\ rState' = [rState EXCEPT ![r] = "ready"]
    /\ UNCHANGED <<storage, write_pos, read_positions, bufStats, lastWrite,
                   lastLen,
                   written, rWritePos, rLocalWp, attachAt>>
    /\ UNCHANGED <<utfVars, cliVars, inVars, mgrVars,
                   ringVars, deltaVars, ctlVars,
                   parseVars, combineVars>>

\* lines 196-200 Drop for BufferReader: the id leaves the map of the
\* reader's clone, and the clone goes away with the reader (a reader waiting
\* in read_next is dropped with its future); the writer's map is untouched
DropReader(r) ==
    /\ rState[r] # "none"
    /\ rState' = [rState EXCEPT ![r] = "none"]
    /\ rReadPositions' = [rReadPositions EXCEPT ![r] = <<>>]
    /\ rWritePos' = [rWritePos EXCEPT ![r] = 0]
    /\ last_read_pos' = [last_read_pos EXCEPT ![r] = 0]
    /\ rLocalWp' = [rLocalWp EXCEPT ![r] = 0]
    /\ lastRet' = [lastRet EXCEPT ![r] = None]
    /\ attachAt' = [attachAt EXCEPT ![r] = 0]
    /\ received' = [received EXCEPT ![r] = <<>>]
    /\ fresh' = [fresh EXCEPT ![r] = "none"]
    /\ compacted' = [compacted EXCEPT ![r] = FALSE]
    /\ UNCHANGED <<storage, write_pos, read_positions, bufStats, lastWrite,
                   lastLen,
                   written>>
    /\ UNCHANGED <<utfVars, cliVars, inVars, mgrVars,
                   ringVars, deltaVars, ctlVars,
                   parseVars, combineVars>>

ReaderStep(r) ==
    TryReadNext(r) \/ ReadNextBegin(r) \/ ReadNextWait(r) \/ ReadNextResume(r)

NextBuf ==
    \/ Write
    \/ \E r \in ReaderIds : CreateReader(r)
    \/ \E r \in ReaderIds : TryReadNext(r)
    \/ \E r \in ReaderIds : ReadNextBegin(r)
    \/ \E r \in ReaderIds : ReadNextWait(r)
    \/ \E r \in ReaderIds : ReadNextResume(r)
    \/ \E r \in ReaderIds : DropReader(r)

\* the bytes written since the reader was created
SinceAttach(r) == SliceFrom(written, attachAt[r])

Range(s) == {s[i] : i \in 1..Len(s)}

(***************************************************************************)
(* Claims about the buffer                                                 *)
(***************************************************************************)
\* C1: a reader that stays attached and keeps reading eventually has
\* received every byte written after it attached, exactly once and in write
\* order (it leaves the obligation only by being dropped).
C1_ReaderEventuallySeesAll ==
    \A r \in ReaderIds :
        [](rState[r] # "none"
             => <>(rState[r] = "none" \/ received[r] = SinceAttach(r)))

\* C10: compaction discards no byte that an attached reader has not yet
\* read, and the first read of an attached reader after a compaction
\* returns exactly the bytes the reader had not yet read, so that the reader
\* then holds everything written since it attached.
C10_CompactionKeepsUnread ==
    \A r \in ReaderIds :
        rState[r] # "none" =>
            /\ \A k \in Range(SinceAttach(r)) :
                   k \in Range(received[r]) \/ k \in Range(storage)
            /\ fresh[r] = "read_after_compaction"
                   => received[r] = SinceAttach(r)

\* C11: a reader receives no byte that was written before it was created:
\* every byte it has been handed lies after the position the stream of
\* written bytes had reached at create_reader.
C11_ReaderStartsAtWritePosition ==
    \A r \in ReaderIds :
        rState[r] # "none" =>
            \A k \in Range(received[r]) : k > attachAt[r]

\* C12: the map that the buffer's compaction consults holds no cursor of a
\* reader that has been dropped, so the floor of a compaction is the minimum
\* over the attached readers only.
C12_DroppedReaderLeavesMap ==
    \A r \in ReaderIds :
        rState[r] = "none" => r \notin DOMAIN read_positions

\* a step in which a write call returned (a write that repeats the latest
\* DataTooLarge call changes nothing at all and is no step)
WriteReturned == <<lastWrite, lastLen, bufStats>>' # <<lastWrite, lastLen, bufStats>>

\* C14: a write that returns BufferFull did not fit even after the
\* compaction, counts exactly one overrun and appends nothing (storage,
\* bytes_written and messages_written are unchanged); a write of acceptable
\* length that fits after the compaction returns Ok and appends exactly its
\* data.
C14_BufferFullAppendsNothing ==
    [][WriteReturned =>
          LET after == CompactBuffer(storage, read_positions, write_pos).storage
          IN  /\ lastWrite' = "BufferFull" =>
                    /\ Len(after) + lastLen' > MaxSize
                    /\ bufStats'.overruns = bufStats.overruns + 1
                    /\ bufStats'.bytes_written = bufStats.bytes_written
                    /\ bufStats'.messages_written = bufStats.messages_written
                    /\ storage' = storage
                    /\ written' = written
              /\ (2 * lastLen' <= MaxSize /\ Len(after) + lastLen' <= MaxSize) =>
                    /\ lastWrite' = "Ok"
                    /\ Len(storage') = Len(after) + lastLen'
                    /\ bufStats'.overruns = bufStats.overruns
      ]_vars

C14_Witness ==
    /\ lastWrite = "BufferFull"
    /\ bufStats.overruns = 1
    /\ bufStats.messages_written = 2
    /\ Len(storage) = MaxSize

\* C15: a write of more than half the capacity returns DataTooLarge and
\* leaves storage, write position, reader positions, every counter and every
\* waiting reader as they were; a write of at most half the capacity never
\* returns DataTooLarge.
C15_DataTooLargeChangesNothing ==
    [][WriteReturned =>
          /\ 2 * lastLen' > MaxSize =>
                /\ lastWrite' = "DataTooLarge"
                /\ UNCHANGED <<storage, write_pos, read_positions, bufStats,
                               written, rState>>
          /\ 2 * lastLen' <= MaxSize => lastWrite' # "DataTooLarge"
      ]_vars

C15_Witness ==
    /\ lastWrite = "DataTooLarge"
    /\ 2 * lastLen > MaxSize
    /\ storage # <<>>
    /\ \E r \in ReaderIds : rState[r] = "waiting"

\* lines 64-66, 98-107: in the buffer that is written, the stored bytes are
\* within max_size and write_pos is their number
WrittenBufferInStep ==
    /\ Len(storage) <= MaxSize
    /\ write_pos = Len(storage)

\* C40: in every reachable state of an OptimizedTerminalBuffer (the buffer
\* that is written and the buffer each reader holds, which share the
\* storage) the stored bytes are at most max_size and the buffer's write
\* position is the number of stored bytes, also after a compaction and
\* after a write that returned BufferFull.
C40_WritePosIsStoredLength ==
    /\ WrittenBufferInStep
    /\ \A r \in ReaderIds :
          rState[r] # "none" => CloneWritePos(r) = Len(storage)

(***************************************************************************)
(* OptimizedClientManager::send_to_client (src/websocket/optimized.rs)     *)
(* for one registered client; the calls of Senders run concurrently.       *)
(***************************************************************************)
BACKPRESSURE_THRESHOLD == 256

MaxSendFailed == 2   \* bound on the failed sends that are counted

Senders == {"s1", "s2"}

\* lines 114-134 add_client: a channel and a semaphore of the threshold's size
CliIdle ==
    /\ permits = BACKPRESSURE_THRESHOLD
    /\ chanLen = 0
    /\ backpressure_events = 0
    /\ sendPc = [s \in Senders |-> "idle"]
    /\ sendAvail = [s \in Senders |-> 0]
    /\ sendFailed = 0

CliInit == CliIdle

\* lines 158-164: look the client up and read available_permits
SendLookup(s) ==
    /\ sendPc[s] = "idle"
    /\ sendFailed < MaxSendFailed
    /\ sendAvail' = [sendAvail EXCEPT ![s] = permits]
    /\ sendPc' = [sendPc EXCEPT ![s] = "looked_up"]
    /\ UNCHANGED <<permits, chanLen, backpressure_events, sendFailed>>
    /\ UNCHANGED <<utfVars, bufVars, inVars, mgrVars,
                   ringVars, deltaVars, ctlVars,
                   parseVars, combineVars>>

\* line 176: mpsc::Sender::try_send on a channel of the threshold's capacity
TrySendOk == chanLen < BACKPRESSURE_THRESHOLD

\* lines 166-180: count a backpressure event, or take a permit and try_send
SendDecide(s) ==
    /\ sendPc[s] = "looked_up"
    /\ IF sendAvail[s] = 0
       THEN /\ backpressure_events' = backpressure_events + 1
            /\ sendPc' = [sendPc EXCEPT ![s] = "idle"]
            /\ UNCHANGED <<permits, chanLen, sendFailed>>
       ELSE IF permits > 0
       THEN /\ permits' = permits - 1
            /\ IF TrySendOk
               THEN chanLen' = chanLen + 1 /\ UNCHANGED sendFailed
               ELSE sendFailed' = sendFailed + 1 /\ UNCHANGED chanLen
            /\ sendPc' = [sendPc EXCEPT ![s] = "holds_permit"]
            /\ UNCHANGED backpressure_events
       ELSE /\ sendPc' = [sendPc EXCEPT ![s] = "idle"]
            /\ UNCHANGED <<permits, chanLen, backpressure_events, sendFailed>>
    /\ UNCHANGED sendAvail
    /\ UNCHANGED <<utfVars, bufVars, inVars, mgrVars,
                   ringVars, deltaVars, ctlVars,
                   parseVars, combineVars>>

\* line 179: _permit goes out of scope at the end of the if-let block and
\* the permit returns to the semaphore
SendReleasePermit(s) ==
    /\ sendPc[s] = "holds_permit"
    /\ permits' = permits + 1
    /\ sendPc' = [sendPc EXCEPT ![s] = "idle"]
    /\ UNCHANGED <<chanLen, backpressure_events, sendAvail, sendFailed>>
    /\ UNCHANGED <<utfVars, bufVars, inVars, mgrVars,
                   ringVars, deltaVars, ctlVars,
                   parseVars, combineVars>>

\* lines 352-353: the client's send task takes one message off the channel
ClientRecv ==
    /\ chanLen > 0
    /\ chanLen' = chanLen - 1
    /\ UNCHANGED <<permits, backpressure_events, sendPc, sendAvail, sendFailed>>
    /\ UNCHANGED <<utfVars, bufVars, inVars, mgrVars,
                   ringVars, deltaVars, ctlVars,
                   parseVars, combineVars>>

NextCli ==
    \/ \E s \in Senders : SendLookup(s)
    \/ \E s \in Senders : SendDecide(s)
    \/ \E s \in Senders : SendReleasePermit(s)
    \/ ClientRecv

\* C5: every message handed to send_to_client and not yet consumed holds one
\* of the client's permits; a message is dropped only with the permits at
\* zero, and each drop is counted in backpressure_events; the number of
\* queued messages never exceeds the threshold.
C5_OutstandingMessagesHoldPermits ==
    /\ (\A s \in Senders : sendPc[s] = "idle")
           => permits = BACKPRESSURE_THRESHOLD - chanLen
    /\ backpressure_events = sendFailed
    /\ chanLen <= BACKPRESSURE_THRESHOLD

(***************************************************************************)
(* input_processor_loop and the enqueueing calls of one session            *)
(* (src/websocket/optimized_session_manager.rs)                            *)
(***************************************************************************)
\* ---- bounds of the input specification
MaxBatch == 2      \* ManagerConfig.max_input_batch
MaxCmds == 4       \* commands enqueued per behaviour

Texts == { <<>>, <<"a">>, <<"b">> }

Text(s) == [kind |-> "Text", text |-> s]
SpecialKey(k) == [kind |-> "SpecialKey", key |-> k]
Resize(c, r) == [kind |-> "Resize", cols |-> c, rows |-> r]

\* the external calls
SendKeysCall(s) == [kind |-> "send_keys", text |-> s]
SpecialKeyCall(k) == [kind |-> "send_special_key", key |-> k]
ResizeCall(c, r) == [kind |-> "resize-window", cols |-> c, rows |-> r]

InIdle ==
    /\ queue = <<>>
    /\ dimensions = <<80, 24>>
    /\ procPc = "tick"
    /\ text_buffer = <<>>
    /\ commands_processed = 0
    /\ inStats = [total_inputs |-> 0, input_errors |-> 0]
    /\ issued = <<>>
    /\ enqueued = <<>>

InInit == InIdle

\* an enqueueing call takes the queue mutex, which the processor holds for
\* the whole of a batch (lines 432-503)
CanEnqueue == procPc = "tick" /\ Len(enqueued) < MaxCmds

Enqueue(cmd) ==
    /\ queue' = Append(queue, cmd)
    /\ enqueued' = Append(enqueued, cmd)
    /\ UNCHANGED <<procPc, text_buffer, commands_processed, inStats, issued>>
    /\ UNCHANGED <<utfVars, bufVars, cliVars, mgrVars,
                   ringVars, deltaVars, ctlVars,
                   parseVars, combineVars>>

\* lines 265-274 send_input
SendInput ==
    /\ CanEnqueue
    /\ \E s \in Texts : Enqueue(Text(s))
    /\ UNCHANGED dimensions

\* lines 277-286 send_special_key
SendSpecialKey ==
    /\ CanEnqueue
    /\ Enqueue(SpecialKey("Enter"))
    /\ UNCHANGED dimensions

\* lines 289-299 resize_session
ResizeSession ==
    /\ CanEnqueue
    /\ \E d \in { <<80, 24>>, <<120, 40>> } :
          /\ dimensions' = d
          /\ Enqueue(Resize(d[1], d[2]))

\* lines 430-440: the tick; an empty queue releases the mutex at once
ProcTick ==
    /\ procPc = "tick"
    /\ IF queue = <<>>
       THEN UNCHANGED <<procPc, text_buffer, commands_processed>>
       ELSE /\ procPc' = "batch"
            /\ text_buffer' = <<>>
            /\ commands_processed' = 0
    /\ UNCHANGED <<queue, dimensions, inStats, issued, enqueued>>
    /\ UNCHANGED <<utfVars, bufVars, cliVars, mgrVars,
                   ringVars, deltaVars, ctlVars,
                   parseVars, combineVars>>

\* mutant: the accumulated text is not sent before the key or the resize
FlushText_Forgotten(buf, calls) == calls

\* lines 451-457 / 468-474: flush the text buffer first
FlushText(buf, calls) ==
    IF buf # <<>> THEN Append(calls, SendKeysCall(buf)) ELSE calls

\* the number of external calls a command of the batch makes
CallsFor(cmd) ==
    IF cmd.kind = "Text" THEN 0
    ELSE IF text_buffer # <<>> THEN 2 ELSE 1

\* lines 442-491: one pass of the while loop; failed counts the external
\* calls of this pass that returned an error
ProcCommand ==
    /\ procPc = "batch"
    /\ commands_processed < MaxBatch
    /\ queue # <<>>
    /\ LET cmd == Head(queue)
       IN  /\ queue' = Tail(queue)
           /\ commands_processed' = commands_processed + 1
           /\ IF cmd.kind = "Text"
              THEN /\ text_buffer' = text_buffer \o cmd.text
                   /\ UNCHANGED issued
              ELSE /\ text_buffer' = <<>>
                   /\ issued' = Append(FlushText(text_buffer, issued),
                                       IF cmd.kind = "SpecialKey"
                                       THEN SpecialKeyCall(cmd.key)
                                       ELSE ResizeCall(cmd.cols, cmd.rows))
           /\ \E failed \in 0..CallsFor(cmd) :
                 inStats' = [inStats EXCEPT !.input_errors = @ + failed]
    /\ UNCHANGED <<procPc, dimensions, enqueued>>
    /\ UNCHANGED <<utfVars, bufVars, cliVars, mgrVars,
                   ringVars, deltaVars, ctlVars,
                   parseVars, combineVars>>

\* lines 493-503: send the remaining text, release the mutex
ProcFinish ==
    /\ procPc = "batch"
    /\ ~(commands_processed < MaxBatch /\ queue # <<>>)
    /\ issued' = FlushText(text_buffer, issued)
    /\ IF text_buffer # <<>>
       THEN \E ok \in BOOLEAN :
               inStats' = IF ok
                          THEN [inStats EXCEPT !.total_inputs = @ + 1]
                          ELSE [inStats EXCEPT !.input_errors = @ + 1]
       ELSE UNCHANGED inStats
    /\ text_buffer' = <<>>
    /\ procPc' = "tick"
    /\ UNCHANGED <<queue, dimensions, commands_processed, enqueued>>
    /\ UNCHANGED <<utfVars, bufVars, cliVars, mgrVars,
                   ringVars, deltaVars, ctlVars,
                   parseVars, combineVars>>

NextInput ==
    \/ SendInput
    \/ SendSpecialKey
    \/ ResizeSession
    \/ ProcTick
    \/ ProcCommand
    \/ ProcFinish

\* a sequence of commands or of external calls as the sequence of what the
\* terminal is given: one item per character of text, one per key, one per
\* resize (merging or splitting text leaves it unchanged, moving text across
\* a key or a resize does not)
RECURSIVE Items(_)
Items(s) ==
    IF s = <<>> THEN <<>>
    ELSE LET x == Head(s)
         IN  (IF x.kind \in {"Text", "send_keys"}
              THEN [i \in 1..Len(x.text) |-> <<"char", x.text[i]>>]
              ELSE IF x.kind \in {"SpecialKey", "send_special_key"}
              THEN << <<"key", x.key>> >>
              ELSE << <<"resize", x.cols, x.rows>> >>)
             \o Items(Tail(s))

\* the commands taken off the queue so far
Dequeued == SubSeq(enqueued, 1, Len(enqueued) - Len(queue))

\* C6: the external calls issued so far, followed by the text still held in
\* the processor's text buffer, reproduce the commands taken off the queue
\* in arrival order: text is merged only with adjacent text and never moves
\* across a special key or a resize, within a batch and across batches.
C6_InputAppliedInArrivalOrder ==
    Items(issued) \o Items(<<Text(text_buffer)>>) = Items(Dequeued)

\* C32: the input processor makes no external call (send-keys, special
\* key, resize) while it holds the input-queue mutex, which it holds from
\* line 432 to the end of the batch (procPc = "batch"), so that the
\* enqueueing calls never wait for external I/O.
C32_NoExternalCallUnderQueueMutex ==
    [][Len(issued') > Len(issued) => procPc # "batch"]_vars

\* text merged from two commands, then a key, then text of a later batch
C6_Witness ==
    /\ procPc = "tick"
    /\ queue = <<>>
    /\ enqueued = <<Text(<<"a">>), Text(<<"b">>), SpecialKey("Enter"),
                    Text(<<"a">>)>>
    /\ issued = <<SendKeysCall(<<"a", "b">>), SpecialKeyCall("Enter"),
                  SendKeysCall(<<"a">>)>>

(***************************************************************************)
(* OptimizedSessionManager (src/websocket/optimized_session_manager.rs)    *)
(* Every await of a call is a point where other tasks run, so a call is a  *)
(* sequence of steps; opPc holds the position of each client's call.       *)
(***************************************************************************)
GRACE_SECS == 30
MAX_CONCURRENT_CAPTURES == 10

\* ---- bounds of the session manager specification
MaxCalls == 3      \* add_client_to_session and remove_client_from_session calls
MaxConsecutiveErrors == 1   \* capture_loop's error budget (line 408)

\* the session's buffer is an OptimizedTerminalBuffer of max_size MaxSize;
\* a captured screen has the largest length its write accepts
CaptureLen == MaxSize \div 2

\* the clock advances in steps of half the grace period
TimeStep == GRACE_SECS \div 2

Names == {"dev"}
Clients == {"c1", "c2"}
Objs == 1..MaxCalls
TaskIds == 1..MaxCalls
Screens == {1, 2}      \* what capture_pane may return

NoTask == [state |-> "unused", name |-> "", remaining |-> 0]
DoneTask == [state |-> "done", name |-> "", remaining |-> 0]

\* line 356: xxh3_64 of the content, injective on Screens and never the
\* initial last_content_hash 0
ContentHash(content) == content

MgrIdle ==
    /\ sessions = [n \in Names |-> 0]
    /\ nObjs = 0
    /\ sName = [o \in Objs |-> ""]
    /\ pushedTo = [c \in Clients |-> 0]
    /\ sClients = [o \in Objs |-> <<>>]
    /\ capture_task = [o \in Objs |-> "None"]
    /\ capState = [o \in Objs |-> "unborn"]
    /\ consecutive_errors = [o \in Objs |-> 0]
    /\ last_content_hash = [o \in Objs |-> 0]
    /\ sBufUsed = [o \in Objs |-> 0]
    /\ capPermits = MAX_CONCURRENT_CAPTURES
    /\ nInputLoops = [n \in Names |-> 0]
    /\ tmuxSessions = {}
    /\ createCalls = [n \in Names |-> 0]
    /\ opPc = [c \in Clients |-> "idle"]
    /\ opName = [c \in Clients |-> ""]
    /\ got = [c \in Clients |-> 0]
    /\ needCreate = [c \in Clients |-> FALSE]
    /\ nCalls = 0
    /\ idleTasks = [k \in TaskIds |-> NoTask]
    /\ graceLeft = [o \in Objs |-> 0]
    /\ emptiedByRemove = [o \in Objs |-> FALSE]
    /\ callInGrace = [c \in Clients |-> FALSE]
    /\ graceObj = [c \in Clients |-> 0]
    /\ disconnected = [o \in Objs |-> {}]
    /\ failedClients = [o \in Objs |-> {}]
    /\ unserved = [o \in Objs |-> {}]
    /\ emptiedByPrune = [o \in Objs |-> FALSE]

\* lines 104-110 OptimizedSessionManager::new
MgrInit == MgrIdle

\* the references into the map entry's shard that are held across awaits:
\* the Ref of remove_client_from_session (line 228, held to the end of the
\* call) and the Ref of an idle-removal task (line 249)
MapRefs(n) ==
    Cardinality({c \in Clients : opPc[c] = "rem_abort" /\ opName[c] = n})
    + Cardinality({k \in TaskIds : idleTasks[k].state \in {"removing", "stuck"}
                                   /\ idleTasks[k].name = n})

\* the session's grace period is running: its last client left less than
\* GRACE_SECS ago and none has joined since
InGrace(n) ==
    /\ sessions[n] # 0
    /\ sClients[sessions[n]] = <<>>
    /\ graceLeft[sessions[n]] > 0

\* mutant: the lookup never finds the entry
SessionLookup_Miss(n) == 0

\* line 115: self.sessions.get(session_name)
SessionLookup(n) == sessions[n]

otherMgr == <<utfVars, bufVars, cliVars, inVars, ringVars, deltaVars, ctlVars,
                   parseVars, combineVars>>

\* lines 113-117 get_or_create_session, called from add_client_to_session
\* line 207: return the entry, or go on to create the session
AddBegin(c) ==
    /\ opPc[c] = "idle"
    /\ nCalls < MaxCalls
    /\ nCalls' = nCalls + 1
    /\ pushedTo' = [pushedTo EXCEPT ![c] = 0]
    /\ \E n \in Names :
          LET o == SessionLookup(n)
          IN  /\ opName' = [opName EXCEPT ![c] = n]
              /\ callInGrace' = [callInGrace EXCEPT ![c] = InGrace(n)]
              /\ graceObj' = [graceObj EXCEPT ![c] =
                                 IF InGrace(n) THEN sessions[n] ELSE 0]
              /\ got' = [got EXCEPT ![c] = o]
              /\ opPc' = [opPc EXCEPT ![c] =
                             IF o # 0 THEN "add_push" ELSE "add_list"]
    /\ UNCHANGED <<sessions, nObjs, sClients, capture_task, capState,
                   consecutive_errors, last_content_hash, sBufUsed,
                   capPermits, nInputLoops, tmuxSessions, createCalls,
                   needCreate, idleTasks, graceLeft, emptiedByRemove>>
    /\ UNCHANGED sName
    /\ UNCHANGED <<disconnected, failedClients, unserved, emptiedByPrune>>
    /\ UNCHANGED otherMgr

\* lines 123-132: tmux::list_sessions; the session is created when it is
\* not listed or when listing failed
AddList(c) ==
    /\ opPc[c] = "add_list"
    /\ \E listed \in BOOLEAN :
          LET need == IF listed THEN opName[c] \notin tmuxSessions ELSE TRUE
          IN  /\ needCreate' = [needCreate EXCEPT ![c] = need]
              /\ opPc' = [opPc EXCEPT ![c] =
                             IF need THEN "add_create" ELSE "add_spawn"]
    /\ UNCHANGED <<sessions, nObjs, sClients, capture_task, capState,
                   consecutive_errors, last_content_hash, sBufUsed,
                   capPermits, nInputLoops, tmuxSessions, createCalls,
                   opName, got, nCalls, idleTasks, graceLeft,
                   emptiedByRemove, callInGrace, graceObj>>
    /\ UNCHANGED <<sName, pushedTo>>
    /\ UNCHANGED <<disconnected, failedClients, unserved, emptiedByPrune>>
    /\ UNCHANGED otherMgr

\* lines 126 / 130 with tmux/mod.rs 92-112: tmux new-session fails for a
\* name that exists, and the error ends add_client_to_session
AddCreate(c) ==
    /\ opPc[c] = "add_create"
    /\ createCalls' = [createCalls EXCEPT ![opName[c]] = @ + 1]
    /\ IF opName[c] \in tmuxSessions
       THEN /\ opPc' = [opPc EXCEPT ![c] = "idle"]
            /\ callInGrace' = [callInGrace EXCEPT ![c] = FALSE]
            /\ graceObj' = [graceObj EXCEPT ![c] = 0]
            /\ UNCHANGED tmuxSessions
       ELSE /\ opPc' = [opPc EXCEPT ![c] = "add_spawn"]
            /\ tmuxSessions' = tmuxSessions \cup {opName[c]}
            /\ UNCHANGED <<callInGrace, graceObj>>
    /\ needCreate' = [needCreate EXCEPT ![c] = FALSE]
    /\ UNCHANGED <<sessions, nObjs, sClients, capture_task, capState,
                   consecutive_errors, last_content_hash, sBufUsed,
                   capPermits, nInputLoops, opName, got, nCalls, idleTasks,
                   graceLeft, emptiedByRemove>>
    /\ UNCHANGED <<sName, pushedTo>>
    /\ UNCHANGED <<disconnected, failedClients, unserved, emptiedByPrune>>
    /\ UNCHANGED otherMgr

\* lines 134-192: the session object, its capture loop and its input
\* processor loop
AddSpawn(c) ==
    /\ opPc[c] = "add_spawn"
    /\ LET o == nObjs + 1
       IN  /\ nObjs' = o
           /\ sName' = [sName EXCEPT ![o] = opName[c]]
           /\ sClients' = [sClients EXCEPT ![o] = <<>>]
           /\ capState' = [capState EXCEPT ![o] = "tick"]
           /\ capture_task' = [capture_task EXCEPT ![o] = "Some"]
           /\ got' = [got EXCEPT ![c] = o]
    /\ nInputLoops' = [nInputLoops EXCEPT ![opName[c]] = @ + 1]
    /\ opPc' = [opPc EXCEPT ![c] = "add_insert"]
    /\ UNCHANGED <<sessions, consecutive_errors, last_content_hash, sBufUsed,
                   capPermits, tmuxSessions, createCalls, opName, needCreate,
                   nCalls, idleTasks, graceLeft, emptiedByRemove,
                   callInGrace, graceObj>>
    /\ UNCHANGED pushedTo
    /\ UNCHANGED <<disconnected, failedClients, unserved, emptiedByPrune>>
    /\ UNCHANGED otherMgr

\* line 195: sessions.insert takes the shard's write lock, which waits for
\* every Ref into the shard to be dropped; an existing entry is replaced
AddInsert(c) ==
    /\ opPc[c] = "add_insert"
    /\ MapRefs(opName[c]) = 0
    /\ sessions' = [sessions EXCEPT ![opName[c]] = got[c]]
    /\ opPc' = [opPc EXCEPT ![c] = "add_push"]
    /\ UNCHANGED <<nObjs, sClients, capture_task, capState,
                   consecutive_errors, last_content_hash, sBufUsed,
                   capPermits, nInputLoops, tmuxSessions, createCalls,
                   opName, got, needCreate, nCalls, idleTasks, graceLeft, emptiedByRemove, callInGrace, graceObj>>
    /\ UNCHANGED <<sName, pushedTo>>
    /\ UNCHANGED <<disconnected, failedClients, unserved, emptiedByPrune>>
    /\ UNCHANGED otherMgr

\* lines 208-223: push the client handle onto the list of the object that
\* get_or_create_session returned
AddPush(c) ==
    /\ opPc[c] = "add_push"
    /\ sClients' = [sClients EXCEPT ![got[c]] = Append(@, c)]
    /\ graceLeft' = [graceLeft EXCEPT ![got[c]] = 0]
    /\ emptiedByRemove' = [emptiedByRemove EXCEPT ![got[c]] = FALSE]
    /\ opPc' = [opPc EXCEPT ![c] = "idle"]
    /\ got' = [got EXCEPT ![c] = 0]
    /\ pushedTo' = [pushedTo EXCEPT ![c] = got[c]]
    /\ callInGrace' = [callInGrace EXCEPT ![c] = FALSE]
    /\ graceObj' = [graceObj EXCEPT ![c] = 0]
    /\ unserved' = [unserved EXCEPT ![got[c]] = @ \cup {c}]
    /\ emptiedByPrune' = [emptiedByPrune EXCEPT ![got[c]] = FALSE]
    /\ UNCHANGED <<sessions, nObjs, capture_task, capState,
                   consecutive_errors, last_content_hash, sBufUsed,
                   capPermits, nInputLoops, tmuxSessions, createCalls,
                   opName, needCreate, nCalls, idleTasks>>
    /\ UNCHANGED sName
    /\ UNCHANGED <<disconnected, failedClients>>
    /\ UNCHANGED otherMgr

\* line 231: clients.retain(|c| c.id != client_id)
Retain(list, c) == SelectSeq(list, LAMBDA x : x # c)

\* lines 227-239 remove_client_from_session: the client removes its own id
RemoveBegin(c) ==
    /\ opPc[c] = "idle"
    /\ nCalls < MaxCalls
    /\ nCalls' = nCalls + 1
    /\ pushedTo' = [pushedTo EXCEPT ![c] = 0]
    /\ \E n \in Names :
          LET o == sessions[n]
          IN  IF o = 0
              THEN UNCHANGED <<sClients, opPc, opName, got, graceLeft,
                               unserved>>
              ELSE /\ sClients' = [sClients EXCEPT ![o] = Retain(@, c)]
                   /\ unserved' = [unserved EXCEPT ![o] = @ \ {c}]
                   /\ opName' = [opName EXCEPT ![c] = n]
                   /\ IF sClients'[o] = <<>>
                      THEN /\ opPc' = [opPc EXCEPT ![c] = "rem_abort"]
                           /\ got' = [got EXCEPT ![c] = o]
                           /\ graceLeft' = [graceLeft EXCEPT ![o] =
                                  IF sClients[o] # <<>> THEN GRACE_SECS ELSE @]
                      ELSE UNCHANGED <<opPc, got, graceLeft>>
    /\ UNCHANGED <<sessions, nObjs, capture_task, capState,
                   consecutive_errors, last_content_hash, sBufUsed,
                   capPermits, nInputLoops, tmuxSessions, createCalls,
                   needCreate, idleTasks, emptiedByRemove, callInGrace,
                   graceObj>>
    /\ UNCHANGED sName
    /\ UNCHANGED <<disconnected, failedClients, emptiedByPrune>>
    /\ UNCHANGED otherMgr

\* mutant: the handle is taken but the task is left running
AbortCapture_Missing(st) == st

\* line 242 JoinHandle::abort: a task waiting at an await (the ticker,
\* capture_pane or clients.write()) is cancelled there; a finished task
\* stays finished
AbortCapture(st) ==
    IF st \in {"tick", "capturing", "pruning"} THEN "aborted" ELSE st

\* the first unused idle-removal task
FreeTask == CHOOSE k \in TaskIds :
                /\ idleTasks[k].state = "unused"
                /\ \A j \in TaskIds : idleTasks[j].state = "unused" => k <= j

\* lines 241-258: abort the capture task, spawn the idle-removal task, and
\* drop the Ref at the end of the call
RemoveAbort(c) ==
    /\ opPc[c] = "rem_abort"
    /\ LET o == got[c]
           st == IF capture_task[o] = "Some"
                 THEN AbortCapture(capState[o]) ELSE capState[o]
       IN  /\ capState' = [capState EXCEPT ![o] = st]
           /\ capture_task' = [capture_task EXCEPT ![o] = "None"]
           \* the cancelled capture_pane future gives its permit back
           /\ capPermits' = IF /\ capState[o] \in {"capturing", "pruning"}
                               /\ st = "aborted"
                            THEN capPermits + 1 ELSE capPermits
           /\ emptiedByRemove' = [emptiedByRemove EXCEPT ![o] =
                                     sClients[o] = <<>>]
    /\ idleTasks' = [idleTasks EXCEPT ![FreeTask] =
                        [state |-> "sleeping", name |-> opName[c],
                         remaining |-> GRACE_SECS]]
    /\ opPc' = [opPc EXCEPT ![c] = "idle"]
    /\ got' = [got EXCEPT ![c] = 0]
    /\ UNCHANGED <<sessions, nObjs, sClients, consecutive_errors,
                   last_content_hash, sBufUsed, nInputLoops, tmuxSessions,
                   createCalls, opName, needCreate, nCalls, graceLeft,
                   callInGrace, graceObj>>
    /\ UNCHANGED <<sName, pushedTo>>
    /\ UNCHANGED <<disconnected, failedClients, unserved, emptiedByPrune>>
    /\ UNCHANGED otherMgr

\* lines 248-252, the idle-removal task after its sleep: it looks the name
\* up and, with the list empty, drops the session guard and goes on to
\* remove the entry ("removing"); its Ref from sessions.get (line 249)
\* stays alive
IdleExpire(k) ==
    /\ idleTasks[k].state = "sleeping"
    /\ idleTasks[k].remaining = 0
    /\ LET o == sessions[idleTasks[k].name]
       IN  idleTasks' = [idleTasks EXCEPT ![k] =
               IF o = 0 THEN DoneTask
               ELSE IF sClients[o] # <<>> THEN DoneTask
               ELSE [@ EXCEPT !.state = "removing"]]
    /\ UNCHANGED <<sessions, nObjs, sClients, capture_task, capState,
                   consecutive_errors, last_content_hash, sBufUsed,
                   capPermits, nInputLoops, tmuxSessions, createCalls, opPc,
                   opName, got, needCreate, nCalls, graceLeft,
                   emptiedByRemove, callInGrace, graceObj>>
    /\ UNCHANGED <<sName, pushedTo>>
    /\ UNCHANGED <<disconnected, failedClients, unserved, emptiedByPrune>>
    /\ UNCHANGED otherMgr

\* line 253: sessions.remove is called while the task's own Ref is alive:
\* remove waits for the shard's write lock, the Ref holds the read lock,
\* and the task waits forever ("stuck")
IdleRemove(k) ==
    /\ idleTasks[k].state = "removing"
    /\ idleTasks' = [idleTasks EXCEPT ![k] = [@ EXCEPT !.state = "stuck"]]
    /\ UNCHANGED <<sessions, nObjs, sClients, capture_task, capState,
                   consecutive_errors, last_content_hash, sBufUsed,
                   capPermits, nInputLoops, tmuxSessions, createCalls, opPc,
                   opName, got, needCreate, nCalls, graceLeft,
                   emptiedByRemove, callInGrace, graceObj>>
    /\ UNCHANGED <<sName, pushedTo>>
    /\ UNCHANGED <<disconnected, failedClients, unserved, emptiedByPrune>>
    /\ UNCHANGED otherMgr

Sleeping == {k \in TaskIds : idleTasks[k].state = "sleeping"}

\* the passing of TimeStep seconds while a sleep or a grace period runs
Tick ==
    /\ \/ \E k \in Sleeping : idleTasks[k].remaining > 0
       \/ \E o \in Objs : graceLeft[o] > 0
    /\ idleTasks' = [k \in TaskIds |->
           IF k \in Sleeping
           THEN [idleTasks[k] EXCEPT !.remaining = SatSub(@, TimeStep)]
           ELSE idleTasks[k]]
    /\ graceLeft' = [o \in Objs |-> SatSub(graceLeft[o], TimeStep)]
    /\ UNCHANGED <<sessions, nObjs, sClients, capture_task, capState,
                   consecutive_errors, last_content_hash, sBufUsed,
                   capPermits, nInputLoops, tmuxSessions, createCalls, opPc,
                   opName, got, needCreate, nCalls, emptiedByRemove,
                   callInGrace, graceObj>>
    /\ UNCHANGED <<sName, pushedTo>>
    /\ UNCHANGED <<disconnected, failedClients, unserved, emptiedByPrune>>
    /\ UNCHANGED otherMgr

\* lines 333-351 capture_loop: the tick; no capture without clients or
\* without a permit
CaptureTick(o) ==
    /\ capState[o] = "tick"
    /\ IF sClients[o] = <<>> \/ capPermits = 0
       THEN UNCHANGED <<capState, capPermits>>
       ELSE /\ capState' = [capState EXCEPT ![o] = "capturing"]
            /\ capPermits' = capPermits - 1
    /\ UNCHANGED <<sessions, nObjs, sClients, capture_task,
                   consecutive_errors, last_content_hash, sBufUsed,
                   nInputLoops, tmuxSessions, createCalls, opPc, opName, got,
                   needCreate, nCalls, idleTasks, graceLeft,
                   emptiedByRemove, callInGrace, graceObj>>
    /\ UNCHANGED <<sName, pushedTo>>
    /\ UNCHANGED <<disconnected, failedClients, unserved, emptiedByPrune>>
    /\ UNCHANGED otherMgr

\* lines 397-399: the list after the removals at the positions in failedAt,
\* which fit into the list
AfterBroadcast(list, failedAt) ==
    LET keep == {i \in 1..Len(list) : i \notin failedAt}
        F[i \in 0..Len(list)] ==
            IF i = 0 THEN <<>>
            ELSE IF i \in keep THEN Append(F[i - 1], list[i]) ELSE F[i - 1]
    IN  F[Len(list)]

\* line 398: Vec::remove panics for a position outside the list; the
\* removals go from the highest position down, so the first one decides
RemovePanics(list, failedAt) == \E i \in failedAt : i > Len(list)

\* buffer/mod.rs 45-61 for the session's buffer, which never has a reader:
\* compaction frees nothing, so a write succeeds while the data is not too
\* large and the bytes stored so far leave room for it
SessionWriteOk(used, n) == n <= MaxSize \div 2 /\ used + n <= MaxSize

\* lines 351-392 and 403-415 capture_loop: capture_pane returned; on changed
\* content the buffer write and the broadcast pass, which notes the
\* positions of the failed sends and releases the list; with none failed
\* the iteration ends and the permit is dropped
CaptureDone(o) ==
    /\ capState[o] = "capturing"
    /\ \/ \* Err: lines 403-414
          /\ consecutive_errors' = [consecutive_errors EXCEPT ![o] = @ + 1]
          /\ capState' = [capState EXCEPT ![o] =
                IF consecutive_errors'[o] > MaxConsecutiveErrors
                THEN "exited" ELSE "tick"]
          /\ capPermits' = capPermits + 1
          /\ UNCHANGED <<last_content_hash, sBufUsed, disconnected,
                         failedClients, unserved>>
       \/ \* Ok(content): lines 352-392
          \E content \in Screens :
             /\ consecutive_errors' = [consecutive_errors EXCEPT ![o] = 0]
             /\ IF ContentHash(content) = last_content_hash[o]
                THEN /\ capState' = [capState EXCEPT ![o] = "tick"]
                     /\ capPermits' = capPermits + 1
                     /\ UNCHANGED <<last_content_hash, sBufUsed,
                                    disconnected, failedClients, unserved>>
                ELSE /\ last_content_hash' =
                           [last_content_hash EXCEPT ![o] = ContentHash(content)]
                     /\ IF ~SessionWriteOk(sBufUsed[o], CaptureLen)
                        THEN /\ capState' = [capState EXCEPT ![o] = "tick"]
                             /\ capPermits' = capPermits + 1
                             /\ UNCHANGED <<sBufUsed, disconnected, failedClients,
                                            unserved>>
                        ELSE /\ sBufUsed' = [sBufUsed EXCEPT ![o] = @ + CaptureLen]
                             /\ \E failedAt \in SUBSET (1..Len(sClients[o])) :
                                   /\ disconnected' =
                                          [disconnected EXCEPT ![o] = failedAt]
                                   /\ failedClients' = [failedClients EXCEPT ![o] =
                                          {sClients[o][i] : i \in failedAt}]
                                   /\ unserved' = [unserved EXCEPT ![o] = @ \
                                          {sClients[o][i] : i \in
                                              (1..Len(sClients[o])) \ failedAt}]
                                   /\ capState' = [capState EXCEPT ![o] =
                                          IF failedAt = {} THEN "tick"
                                          ELSE "pruning"]
                                   /\ capPermits' = IF failedAt = {}
                                                    THEN capPermits + 1
                                                    ELSE capPermits
    /\ UNCHANGED <<sessions, nObjs, sClients, capture_task, nInputLoops,
                   tmuxSessions, createCalls, opPc, opName, got, needCreate,
                   nCalls, idleTasks, graceLeft, emptiedByRemove, callInGrace,
                   graceObj, emptiedByPrune>>
    /\ UNCHANGED <<sName, pushedTo>>
    /\ UNCHANGED otherMgr

\* lines 395-400: with the write lock on the list, the clients at the noted
\* positions are removed, highest position first; a position outside the
\* list makes the task panic. The iteration ends, the permit is dropped
CapturePrune(o) ==
    /\ capState[o] = "pruning"
    /\ IF RemovePanics(sClients[o], disconnected[o])
       THEN /\ capState' = [capState EXCEPT ![o] = "panicked"]
            /\ UNCHANGED sClients
       ELSE /\ capState' = [capState EXCEPT ![o] = "tick"]
            /\ sClients' = [sClients EXCEPT ![o] =
                               AfterBroadcast(@, disconnected[o])]
    /\ disconnected' = [disconnected EXCEPT ![o] = {}]
    /\ capPermits' = capPermits + 1
    /\ UNCHANGED <<sessions, nObjs, capture_task, consecutive_errors,
                   last_content_hash, sBufUsed, nInputLoops, tmuxSessions,
                   createCalls, opPc, opName, got, needCreate, nCalls,
                   idleTasks, graceLeft, emptiedByRemove, callInGrace,
                   graceObj>>
    /\ failedClients' = [failedClients EXCEPT ![o] = {}]
    /\ unserved' = [unserved EXCEPT ![o] = @ \cap Range(sClients'[o])]
    /\ emptiedByPrune' = [emptiedByPrune EXCEPT ![o] =
                              @ \/ (sClients[o] # <<>> /\ sClients'[o] = <<>>)]
    /\ UNCHANGED <<sName, pushedTo>>
    /\ UNCHANGED otherMgr

NextMgr ==
    \/ \E c \in Clients : AddBegin(c)
    \/ \E c \in Clients : AddList(c)
    \/ \E c \in Clients : AddCreate(c)
    \/ \E c \in Clients : AddSpawn(c)
    \/ \E c \in Clients : AddInsert(c)
    \/ \E c \in Clients : AddPush(c)
    \/ \E c \in Clients : RemoveBegin(c)
    \/ \E c \in Clients : RemoveAbort(c)
    \/ \E k \in TaskIds : IdleExpire(k)
    \/ \E k \in TaskIds : IdleRemove(k)
    \/ \E o \in Objs : CaptureTick(o)
    \/ \E o \in Objs : CaptureDone(o)
    \/ \E o \in Objs : CapturePrune(o)
    \/ Tick

(***************************************************************************)
(* Claims about the session manager                                        *)
(***************************************************************************)
ObjsOf(n) == {o \in 1..nObjs : sName[o] = n}

\* no remove_client_from_session has emptied a session so far, so no idle
\* removal is due and every session created is meant to be alive
NothingEmptied == \A k \in TaskIds : idleTasks[k].state = "unused"

\* C2: concurrent add_client_to_session calls for a session name that does
\* not exist yet bring exactly one shared session into existence: one session
\* object with its capture loop, one input-processor loop, at most one
\* create_session call, and every client that was pushed is in the list of
\* the session stored in the manager.
C2_ConcurrentAddsShareOneSession ==
    NothingEmptied =>
        /\ \A n \in Names :
              /\ Cardinality(ObjsOf(n)) <= 1
              /\ nInputLoops[n] <= 1
              /\ createCalls[n] <= 1
        /\ \A c \in Clients :
              pushedTo[c] # 0 => pushedTo[c] = sessions[opName[c]]

\* C7: once remove_client_from_session has returned after emptying a
\* session's client list, and while the list stays empty, the session's
\* capture task has been taken and is not running: it neither waits for a
\* tick nor captures.
C7_LastClientRemovalAbortsCapture ==
    \A o \in Objs :
        (emptiedByRemove[o] /\ sClients[o] = <<>>) =>
            /\ capture_task[o] = "None"
            /\ capState[o] \notin {"tick", "capturing", "pruning"}

C7_Witness ==
    \E o \in Objs :
        /\ emptiedByRemove[o]
        /\ sClients[o] = <<>>
        /\ capState[o] = "aborted"

\* C8: an add_client_to_session whose get_or_create_session looked the name
\* up within the grace period of the stored session goes straight on to push
\* the client onto that very session object: it lists nothing, creates
\* nothing and spawns nothing.
C8_ReaddWithinGraceReusesSession ==
    \A c \in Clients :
        callInGrace[c] => (opPc[c] = "add_push" /\ got[c] = graceObj[c])

C8_Witness ==
    \E c \in Clients :
        /\ callInGrace[c]
        /\ opPc[c] = "add_push"
        /\ got[c] = graceObj[c]
        /\ graceLeft[got[c]] = TimeStep

\* C9: a session that remove_client_from_session left empty is eventually
\* either joined again or no longer the entry of the manager's map.
C9_IdleSessionRemovedAfterGrace ==
    \A o \in Objs :
        (o <= nObjs /\ emptiedByRemove[o] /\ sessions[sName[o]] = o)
            ~> (o <= nObjs /\ (sClients[o] # <<>> \/ sessions[sName[o]] # o))

\* C21: the capture loop terminates exactly when the consecutive capture
\* failures reach the budget (10 in the source, MaxConsecutiveErrors here):
\* a loop that has terminated on failures counts exactly that many, a loop
\* that has counted that many runs no longer, and a successful capture
\* resets the count to zero.
C21_LoopEndsAtBudget ==
    /\ [](\A o \in Objs :
            /\ capState[o] = "exited" =>
                   consecutive_errors[o] = MaxConsecutiveErrors
            /\ consecutive_errors[o] >= MaxConsecutiveErrors =>
                   capState[o] \notin {"tick", "capturing", "pruning"})
    /\ [][\A o \in Objs :
            (capState[o] = "capturing" /\ capState'[o] = "tick"
             /\ consecutive_errors'[o] <= consecutive_errors[o])
                => consecutive_errors'[o] = 0]_vars

\* C24: each session in the manager's map that has at least one client and
\* has not used up its capture-failure budget has exactly one running
\* capture task and exactly one running input-flush task, also after the
\* last client left and a client joined again within the grace period.
\* (Stated for names for which one session object was made, so that the
\* concurrent creation of C2 is left aside.)
C24_LiveSessionHasItsTasks ==
    \A n \in Names :
        LET o == sessions[n]
        IN  (/\ o # 0
             /\ Cardinality(ObjsOf(n)) = 1
             /\ sClients[o] # <<>>
             /\ capState[o] # "exited")
                => /\ capState[o] \in {"tick", "capturing", "pruning"}
                   /\ nInputLoops[n] = 1

\* line 253: an idle-removal task calls sessions.remove
RemovalStep(k) ==
    idleTasks[k].state = "removing" /\ idleTasks'[k].state = "stuck"

PruneStep(o) == capState[o] = "pruning" /\ disconnected'[o] # disconnected[o]

\* no client id is twice in the list
Distinct(list) ==
    \A i \in 1..Len(list) : \A j \in 1..Len(list) : list[i] = list[j] => i = j

\* C26: after a broadcast pass exactly the clients whose send failed in
\* that pass are removed from the session's list and every other client
\* remains, also when add_client_to_session or remove_client_from_session
\* changed the list between the end of the iteration and the removals.
C26_PruneRemovesFailedClients ==
    [][\A o \in Objs :
          (PruneStep(o) /\ Distinct(sClients[o])) =>
              sClients'[o] = SelectSeq(sClients[o],
                                LAMBDA c : c \notin failedClients[o])]_vars

\* C38: after any add_client_to_session and remove_client_from_session
\* calls, also when a client attaches to the same session twice, a client
\* id is at most once in a session's client list.
C38_ClientListedOnce == \A o \in Objs : Distinct(sClients[o])

\* line 362: buffer.write(content) of the next changed screen would succeed
SessionBufferHasRoom(o) == SessionWriteOk(sBufUsed[o], CaptureLen)

\* lines 358-362: the capture loop got a screen whose hash differs from the
\* last one and so writes it to the session's buffer
ChangedScreenStep(o) ==
    capState[o] = "capturing" /\ last_content_hash'[o] # last_content_hash[o]

\* C23: BufferFull is transient: a capture loop that again and again writes
\* changed screen content finds, again and again, a buffer that accepts the
\* write (of at most capacity/2 bytes), so that broadcasting goes on.
C23_BufferFullIsTransient ==
    \A o \in Objs :
        ([]<><<ChangedScreenStep(o)>>_vars) => ([]<>SessionBufferHasRoom(o))

\* lines 351-353: capture_pane returned Ok(content) in this iteration
ScreenCaptured(o) ==
    /\ capState[o] = "capturing"
    /\ capState'[o] \in {"tick", "pruning"}
    /\ consecutive_errors'[o] = 0

\* C31: a client registered on a session is sent the current screen by the
\* next capture iteration that gets a screen (the send itself not failing
\* and the buffer accepting the write), also when the screen has not
\* changed since the previous broadcast.
C31_NewClientGetsCurrentScreen ==
    [][\A o \in Objs : \A c \in Clients :
         (/\ ScreenCaptured(o)
          /\ c \in unserved[o]
          /\ c \in Range(sClients[o])
          /\ SessionBufferHasRoom(o))
             => (c \notin unserved'[o] \/ c \in failedClients'[o])]_vars

\* lines 241-243, 253: the session's capture loop runs no more and the
\* object is not the entry of the manager's map
TornDown(o) ==
    /\ capState[o] \notin {"tick", "capturing", "pruning"}
    /\ sessions[sName[o]] # o

\* C37: a session whose last client the broadcast pass removed is
\* eventually joined again or torn down: its capture loop stopped and the
\* session removed from the manager.
C37_PrunedSessionTornDown ==
    \A o \in Objs : emptiedByPrune[o] ~> (~emptiedByPrune[o] \/ TornDown(o))

(***************************************************************************)
(* TerminalRingBuffer and TerminalReader (src/terminal_buffer.rs)          *)
(* The writer and the readers run in parallel; every operation on the      *)
(* shared ArrayQueue (len, push, pop) is one step.                         *)
(***************************************************************************)
RING_BUFFER_SIZE == 1048576
MAX_CHUNK_SIZE == 65536

\* ---- bounds of the ring buffer specification
QueueCap == 2        \* slots of the chunk queue (ArrayQueue::new, line 47)
MaxRingWrites == 5   \* accepted write calls per behaviour

TReaders == {"t1", "t2"}

\* the lengths a write is tried with
RingWriteLens == {1, MAX_CHUNK_SIZE + 1}

NoChunk == -1

\* mutant: any later chunk is taken
IsNext_Later(seq, last) == seq > last

\* lines 108 / 133: chunk.sequence == self.last_sequence + 1
IsNext(seq, last) == seq = last + 1

RingIdle ==
    /\ chunks = <<>>
    /\ sequence = 0
    /\ ring_write_pos = 0
    /\ wPc = "idle"
    /\ wSeq = 0
    /\ lastRingWrite = "none"
    /\ tPc = [q \in TReaders |-> "none"]
    /\ tKind = [q \in TReaders |-> ""]
    /\ tLeft = [q \in TReaders |-> 0]
    /\ tHeld = [q \in TReaders |-> NoChunk]
    /\ last_sequence = [q \in TReaders |-> 0]
    /\ tReturned = [q \in TReaders |-> <<>>]
    /\ tEarly = [q \in TReaders |-> FALSE]
    /\ evicted = {}
    /\ requeueFailed = FALSE

\* lines 41-49 TerminalRingBuffer::new
RingInit == RingIdle

otherRing == <<utfVars, bufVars, cliVars, inVars, mgrVars, deltaVars, ctlVars,
                   parseVars, combineVars>>

tReaderVars == <<tPc, tKind, tLeft, tHeld, last_sequence, tReturned>>

\* lines 51-79 write: the size check, the sequence number, the copy into
\* the ring and the chunk
RingWriteBegin ==
    /\ wPc = "idle"
    /\ sequence < MaxRingWrites
    /\ \E n \in RingWriteLens :
          IF n > MAX_CHUNK_SIZE
          THEN /\ lastRingWrite' = "Err"
               /\ UNCHANGED <<sequence, ring_write_pos, wPc, wSeq>>
          ELSE /\ sequence' = sequence + 1
               /\ wSeq' = sequence
               /\ ring_write_pos' = (ring_write_pos + n) % RING_BUFFER_SIZE
               /\ wPc' = "push"
               /\ UNCHANGED lastRingWrite
    /\ UNCHANGED <<chunks, tReaderVars>>
    /\ UNCHANGED <<tEarly, evicted, requeueFailed>>
    /\ UNCHANGED otherRing

\* line 82: chunks.push; it fails when every slot is taken
RingPush ==
    /\ wPc = "push"
    /\ IF Len(chunks) < QueueCap
       THEN /\ chunks' = Append(chunks, wSeq)
            /\ wPc' = "notify"
       ELSE /\ wPc' = "evict"
            /\ UNCHANGED chunks
    /\ UNCHANGED <<sequence, ring_write_pos, wSeq, lastRingWrite, tReaderVars>>
    /\ UNCHANGED <<tEarly, evicted, requeueFailed>>
    /\ UNCHANGED otherRing

\* line 83: chunks.pop drops the chunk at the head of the queue
RingEvict ==
    /\ wPc = "evict"
    /\ chunks' = IF chunks = <<>> THEN chunks ELSE Tail(chunks)
    /\ wPc' = "push"
    /\ UNCHANGED <<sequence, ring_write_pos, wSeq, lastRingWrite, tReaderVars>>
    /\ evicted' = IF chunks = <<>> THEN evicted ELSE evicted \cup {Head(chunks)}
    /\ UNCHANGED <<tEarly, requeueFailed>>
    /\ UNCHANGED otherRing

\* lines 87-89: notify_waiters wakes the readers that are waiting in
\* notified() and leaves nothing for a reader that registers later
RingNotify ==
    /\ wPc = "notify"
    /\ tPc' = [q \in TReaders |-> IF tPc[q] = "waiting" THEN "woken" ELSE tPc[q]]
    /\ wPc' = "idle"
    /\ lastRingWrite' = "Ok"
    /\ UNCHANGED <<chunks, sequence, ring_write_pos, wSeq, tKind, tLeft,
                   tHeld, last_sequence, tReturned>>
    /\ UNCHANGED <<tEarly, evicted, requeueFailed>>
    /\ UNCHANGED otherRing

\* lines 92-98 create_reader
CreateTReader(q) ==
    /\ tPc[q] = "none"
    /\ tPc' = [tPc EXCEPT ![q] = "idle"]
    /\ last_sequence' = [last_sequence EXCEPT ![q] = 0]
    /\ tReturned' = [tReturned EXCEPT ![q] = <<>>]
    /\ UNCHANGED <<chunks, sequence, ring_write_pos, wPc, wSeq, lastRingWrite,
                   tKind, tLeft, tHeld>>
    /\ tEarly' = [tEarly EXCEPT ![q] = (sequence = 0)]
    /\ UNCHANGED <<evicted, requeueFailed>>
    /\ UNCHANGED otherRing

\* lines 102-106 / 129-131: a call begins; the loop bound chunks.len() is
\* evaluated once
ReadCall(q) ==
    /\ tPc[q] = "idle"
    /\ \E kind \in {"read_next", "try_read_next"} :
          tKind' = [tKind EXCEPT ![q] = kind]
    /\ tLeft' = [tLeft EXCEPT ![q] = Len(chunks)]
    /\ tPc' = [tPc EXCEPT ![q] = "scan"]
    /\ UNCHANGED <<chunks, sequence, ring_write_pos, wPc, wSeq, lastRingWrite,
                   tHeld, last_sequence, tReturned>>
    /\ UNCHANGED <<tEarly, evicted, requeueFailed>>
    /\ UNCHANGED otherRing

\* lines 106-122 / 131-142: one iteration of the scan up to its pop, or the
\* end of the loop: try_read_next returns None, read_next goes on to wait
ScanStep(q) ==
    /\ tPc[q] = "scan"
    /\ IF tLeft[q] = 0
       THEN /\ tPc' = [tPc EXCEPT ![q] =
                          IF tKind[q] = "read_next" THEN "checked" ELSE "idle"]
            /\ UNCHANGED <<chunks, tLeft, tHeld, last_sequence, tReturned>>
       ELSE IF chunks = <<>>
       THEN /\ tLeft' = [tLeft EXCEPT ![q] = @ - 1]
            /\ UNCHANGED <<chunks, tPc, tHeld, last_sequence, tReturned>>
       ELSE LET chunk == Head(chunks)
            IN  /\ chunks' = Tail(chunks)
                /\ IF IsNext(chunk, last_sequence[q])
                   THEN /\ last_sequence' = [last_sequence EXCEPT ![q] = chunk]
                        /\ tReturned' = [tReturned EXCEPT ![q] = Append(@, chunk)]
                        /\ tPc' = [tPc EXCEPT ![q] = "idle"]
                        /\ tLeft' = [tLeft EXCEPT ![q] = 0]
                        /\ UNCHANGED tHeld
                   ELSE IF chunk > last_sequence[q]
                   THEN /\ tHeld' = [tHeld EXCEPT ![q] = chunk]
                        /\ tPc' = [tPc EXCEPT ![q] = "requeue"]
                        /\ UNCHANGED <<tLeft, last_sequence, tReturned>>
                   ELSE /\ tLeft' = [tLeft EXCEPT ![q] = @ - 1]
                        /\ UNCHANGED <<tPc, tHeld, last_sequence, tReturned>>
    /\ UNCHANGED <<sequence, ring_write_pos, wPc, wSeq, lastRingWrite, tKind>>
    /\ UNCHANGED <<tEarly, evicted, requeueFailed>>
    /\ UNCHANGED otherRing

\* lines 114 / 138: let _ = self.chunks.push(chunk); a failed push loses
\* the chunk
Requeue(q) ==
    /\ tPc[q] = "requeue"
    /\ chunks' = IF Len(chunks) < QueueCap
                 THEN Append(chunks, tHeld[q]) ELSE chunks
    /\ tHeld' = [tHeld EXCEPT ![q] = NoChunk]
    /\ tLeft' = [tLeft EXCEPT ![q] = @ - 1]
    /\ tPc' = [tPc EXCEPT ![q] = "scan"]
    /\ UNCHANGED <<sequence, ring_write_pos, wPc, wSeq, lastRingWrite, tKind,
                   last_sequence, tReturned>>
    /\ requeueFailed' = (requeueFailed \/ Len(chunks) >= QueueCap)
    /\ UNCHANGED <<tEarly, evicted>>
    /\ UNCHANGED otherRing

\* line 125: notified() creates the future that a later notify_waiters wakes
Register(q) ==
    /\ tPc[q] = "checked"
    /\ tPc' = [tPc EXCEPT ![q] = "waiting"]
    /\ UNCHANGED <<chunks, sequence, ring_write_pos, wPc, wSeq, lastRingWrite,
                   tKind, tLeft, tHeld, last_sequence, tReturned>>
    /\ UNCHANGED <<tEarly, evicted, requeueFailed>>
    /\ UNCHANGED otherRing

\* lines 103-106: the woken reader runs the loop again
Resume(q) ==
    /\ tPc[q] = "woken"
    /\ tLeft' = [tLeft EXCEPT ![q] = Len(chunks)]
    /\ tPc' = [tPc EXCEPT ![q] = "scan"]
    /\ UNCHANGED <<chunks, sequence, ring_write_pos, wPc, wSeq, lastRingWrite,
                   tKind, tHeld, last_sequence, tReturned>>
    /\ UNCHANGED <<tEarly, evicted, requeueFailed>>
    /\ UNCHANGED otherRing

\* the steps of a call that has begun
TReaderStep(q) == ScanStep(q) \/ Requeue(q) \/ Register(q) \/ Resume(q)

\* the steps of a write that has begun
RingWriteStep == RingPush \/ RingEvict \/ RingNotify

NextRing ==
    \/ RingWriteBegin
    \/ RingPush
    \/ RingEvict
    \/ RingNotify
    \/ \E q \in TReaders : CreateTReader(q)
    \/ \E q \in TReaders : ReadCall(q)
    \/ \E q \in TReaders : ScanStep(q)
    \/ \E q \in TReaders : Requeue(q)
    \/ \E q \in TReaders : Register(q)
    \/ \E q \in TReaders : Resume(q)

\* the ring buffer with one reader only
SoloReader == "t1"

NextRingSolo ==
    \/ RingWriteBegin
    \/ RingPush
    \/ RingEvict
    \/ RingNotify
    \/ CreateTReader(SoloReader)
    \/ ReadCall(SoloReader)
    \/ ScanStep(SoloReader)
    \/ Requeue(SoloReader)
    \/ Register(SoloReader)
    \/ Resume(SoloReader)

(***************************************************************************)
(* Claims about the ring buffer and its readers                            *)
(***************************************************************************)
\* the chunk the reader expects next is in the queue
Unread(q) == last_sequence[q] + 1 \in Range(chunks)

\* C13: no lost wake-up: a reader does not stay blocked in read_next for
\* ever while the chunk it expects next is in the queue, also when no
\* further write is made.
C13_NoLostWakeup ==
    \A q \in TReaders :
        (tPc[q] = "waiting" /\ Unread(q))
            ~> (tPc[q] # "waiting" \/ ~Unread(q))

\* C20: the sequence numbers of the chunks returned to one reader increase
\* by exactly one from each returned chunk to the next.
C20_ReturnedSequencesConsecutive ==
    \A q \in TReaders :
        \A i \in 1..(Len(tReturned[q]) - 1) :
            tReturned[q][i + 1] = tReturned[q][i] + 1

C20_Witness ==
    \E q \in TReaders :
        /\ Len(tReturned[q]) >= 2
        /\ \A o \in TReaders : tPc[o] # "none"

\* the queue never overflowed: the writer evicted no chunk and no reader
\* failed to push a chunk back
KeptPace == evicted = {} /\ ~requeueFailed

\* C27: a single reader made before the first write, with the queue never
\* overflowing, receives the chunks written beginning with the very first
\* one, each once and in write order: the i-th chunk returned to it is the
\* i-th chunk written (sequence i - 1).
C27_SingleReaderGetsEveryChunk ==
    \A q \in TReaders :
        (/\ tPc[q] # "none"
         /\ tEarly[q]
         /\ \A o \in TReaders \ {q} : tPc[o] = "none"
         /\ KeptPace)
            => \A i \in 1..Len(tReturned[q]) : tReturned[q][i] = i - 1

\* the chunks a reader can still get: those in the queue and those a
\* reader has popped and is about to push back
Available == Range(chunks) \cup ({tHeld[q] : q \in TReaders} \ {NoChunk})

\* C28: with two readers made from the same ring buffer before the first
\* write and the queue never overflowing, each reader receives every chunk:
\* a chunk that one reader has returned or discarded has been returned to
\* the other reader or is still there for it.
C28_ChunkStaysForOtherReader ==
    (/\ \A q \in TReaders : tPc[q] # "none" /\ tEarly[q]
     /\ KeptPace)
        => \A q \in TReaders : \A s \in Range(tReturned[q]) :
               \A o \in TReaders \ {q} :
                   s \in Range(tReturned[o]) \cup Available

\* the chunk the reader expects next was evicted by the writer
NextEvicted(q) == tPc[q] # "none" /\ (last_sequence[q] + 1) \in evicted

EvictStep == wPc = "evict" /\ wPc' = "push" /\ chunks # <<>>

\* C30: the queue never holds more chunks than it has slots, and a write
\* that finds the queue full evicts the oldest queued chunk, the one with
\* the lowest sequence number in the queue, also when readers have pushed
\* chunks back while scanning.
C30_EvictsOldestChunk ==
    /\ [](Len(chunks) <= QueueCap)
    /\ [][EvictStep => Head(chunks) = SetMin(Range(chunks))]_vars

(***************************************************************************)
(* TerminalDeltaTracker (src/terminal_delta.rs)                            *)
(***************************************************************************)
MaxLines == 2   \* lines of a snapshot

DeltaClients == {"c1", "c2"}

\* contents of a terminal line
LineContents == {"", "a"}

\* <<cursor_row, cursor_col, viewport_top>> of a snapshot
Cursors == {<<0, 0, 0>>, <<1, 2, 3>>}

\* lines 111, 136: the hash of a line's content. The values stand for the
\* 64-bit hashes; none of them is 0, the hash the blanking entries carry
\* (line 205). A hash of 64 bits is not injective on contents: "a" and "b"
\* stand for two contents with the same hash
xxh3_64(content) ==
    CASE content = "" -> 1
      [] content = "a" -> 2
      [] OTHER -> 2

TerminalLine(content) == [content |-> content, hash |-> xxh3_64(content)]

\* the line sequences of LineContents, and one line of the content "b"
\* whose hash is that of "a"
LineSeqs ==
    UNION {[1..n -> {TerminalLine(c) : c \in LineContents}] : n \in 0..MaxLines}
        \cup {<<TerminalLine("b")>>}

\* lines 18-24 (viewport_height is not read by compute_delta)
Snapshots ==
    {[lines |-> l, cursor_row |-> c[1], cursor_col |-> c[2],
      viewport_top |-> c[3]] : l \in LineSeqs, c \in Cursors}

\* Option<usize>
Absent == [some |-> FALSE, data |-> 0]
Present(n) == [some |-> TRUE, data |-> n]

\* Option<TerminalSnapshot>: what client_snapshots.get returns
NoSnapshot ==
    [some |-> FALSE,
     data |-> [lines |-> <<>>, cursor_row |-> 0, cursor_col |-> 0,
               viewport_top |-> 0]]
\* mutant: the new snapshot is not stored
Stored_Nothing(s) == NoSnapshot
Stored(s) == [some |-> TRUE, data |-> s]

\* lines 155-161: the delta compute_delta starts from
EmptyDelta ==
    [changes |-> <<>>, cursor_row |-> Absent, cursor_col |-> Absent,
     viewport_top |-> Absent, clear_screen |-> FALSE]

\* Option<TerminalDelta>
NoDelta == [some |-> FALSE, data |-> EmptyDelta]
SomeDelta(d) == [some |-> TRUE, data |-> d]

NoCall ==
    [op |-> "none", client |-> "", old |-> NoSnapshot, new |-> NoSnapshot.data,
     afterRemove |-> FALSE]

\* the receiving side of lines 31-47: an empty screen of blank lines
EmptyMirror ==
    [lines |-> [idx \in 0..(MaxLines - 1) |-> ""], cursor_row |-> 0,
     cursor_col |-> 0, viewport_top |-> 0]

\* the receiving side of lines 39-47 (TerminalDelta): clearScreen drops all
\* lines, each change overwrites the line of its number (the last entry for
\* a number stays), a cursor or viewport field that is present is set, and
\* None changes nothing
ApplyDelta(m, returned) ==
    IF ~returned.some THEN m
    ELSE LET d == returned.data
             base == IF d.clear_screen THEN EmptyMirror.lines ELSE m.lines
             Hits(idx) == {k \in 1..Len(d.changes) :
                              d.changes[k].line_number = idx}
         IN  [lines |-> [idx \in 0..(MaxLines - 1) |->
                  IF Hits(idx) = {} THEN base[idx]
                  ELSE d.changes[CHOOSE k \in Hits(idx) :
                                     \A j \in Hits(idx) : j <= k].content],
              cursor_row |-> IF d.cursor_row.some THEN d.cursor_row.data
                             ELSE m.cursor_row,
              cursor_col |-> IF d.cursor_col.some THEN d.cursor_col.data
                             ELSE m.cursor_col,
              viewport_top |-> IF d.viewport_top.some THEN d.viewport_top.data
                               ELSE m.viewport_top]

DeltaIdle ==
    /\ client_snapshots = [c \in DeltaClients |-> NoSnapshot]
    /\ lastDelta = NoDelta
    /\ lastCall = NoCall
    /\ dropped = {}
    /\ mirror = [c \in DeltaClients |-> EmptyMirror]

\* lines 50-54
DeltaInit == DeltaIdle

otherDelta == <<utfVars, bufVars, cliVars, inVars, mgrVars, ringVars, ctlVars,
                   parseVars, combineVars>>

\* lines 171-175, 191-195, 227-231: the entry for the line with index idx
\* (idx counts from 0, the sequence from 1)
LineDelta(idx, line) ==
    [line_number |-> idx, content |-> line.content, hash |-> line.hash]

\* lines 170-176, 226-232: every line of the snapshot
AllLines(snapshot) ==
    [i \in 1..Len(snapshot.lines) |-> LineDelta(i - 1, snapshot.lines[i])]

\* line 166 (usize division)
ScreenCleared(new_snapshot, old_snapshot) ==
    Len(new_snapshot.lines) < Len(old_snapshot.lines) \div 2

\* lines 184-188 with every line taken as changed
LineChanged_Always(old_lines, new_lines, idx) == TRUE

\* lines 184-188
LineChanged(old_lines, new_lines, idx) ==
    IF idx < Len(old_lines)
    THEN old_lines[idx + 1].hash # new_lines[idx + 1].hash
    ELSE TRUE

\* lines 183-197: the changed lines, in the order of the loop
ChangedLines(old_lines, new_lines) ==
    LET idxs == SelectSeq([i \in 1..Len(new_lines) |-> i - 1],
                          LAMBDA idx : LineChanged(old_lines, new_lines, idx))
    IN  [k \in 1..Len(idxs) |-> LineDelta(idxs[k], new_lines[idxs[k] + 1])]

\* lines 200-208: blanking entries for the lines the terminal lost
BlankLines(old_lines, new_lines) ==
    IF Len(old_lines) > Len(new_lines)
    THEN [k \in 1..(Len(old_lines) - Len(new_lines)) |->
              [line_number |-> Len(new_lines) + k - 1, content |-> "",
               hash |-> 0]]
    ELSE <<>>

\* lines 212-222: a cursor or viewport field is sent when it changed
Updated(old_value, new_value) ==
    IF old_value # new_value THEN Present(new_value) ELSE Absent

\* lines 164-222: the delta against the stored snapshot
DiffDelta(old_snapshot, new_snapshot) ==
    [changes |->
         IF ScreenCleared(new_snapshot, old_snapshot)
         THEN AllLines(new_snapshot)
         ELSE ChangedLines(old_snapshot.lines, new_snapshot.lines)
                  \o BlankLines(old_snapshot.lines, new_snapshot.lines),
     cursor_row |-> Updated(old_snapshot.cursor_row, new_snapshot.cursor_row),
     cursor_col |-> Updated(old_snapshot.cursor_col, new_snapshot.cursor_col),
     viewport_top |->
         Updated(old_snapshot.viewport_top, new_snapshot.viewport_top),
     clear_screen |-> ScreenCleared(new_snapshot, old_snapshot)]

\* lines 223-236 without the cursor column
FirstDelta_NoColumn(new_snapshot) ==
    [changes |-> AllLines(new_snapshot),
     cursor_row |-> Present(new_snapshot.cursor_row),
     cursor_col |-> Absent,
     viewport_top |-> Present(new_snapshot.viewport_top),
     clear_screen |-> TRUE]

\* lines 223-236: the first snapshot of a client, everything is sent
FirstDelta(new_snapshot) ==
    [changes |-> AllLines(new_snapshot),
     cursor_row |-> Present(new_snapshot.cursor_row),
     cursor_col |-> Present(new_snapshot.cursor_col),
     viewport_top |-> Present(new_snapshot.viewport_top),
     clear_screen |-> TRUE]

\* lines 242-250 with an empty change list always sent
Returned_Always(delta) == SomeDelta(delta)

\* lines 242-250: a delta without content is not sent
Returned(delta) ==
    IF /\ delta.changes = <<>>
       /\ ~delta.cursor_row.some
       /\ ~delta.cursor_col.some
       /\ ~delta.viewport_top.some
       /\ ~delta.clear_screen
    THEN NoDelta
    ELSE SomeDelta(delta)

\* lines 154-251: compute_delta(client_id, new_snapshot)
ComputeDelta(client, new_snapshot) ==
    LET old == client_snapshots[client]
        delta == IF old.some
                 THEN DiffDelta(old.data, new_snapshot)
                 ELSE FirstDelta(new_snapshot)
    IN  /\ client_snapshots' =
               [client_snapshots EXCEPT ![client] = Stored(new_snapshot)]
        /\ lastDelta' = Returned(delta)
        /\ lastCall' = [op |-> "compute_delta", client |-> client,
                        old |-> old, new |-> new_snapshot,
                        afterRemove |-> client \in dropped]
        /\ dropped' = dropped \ {client}
        /\ mirror' = [mirror EXCEPT ![client] = ApplyDelta(@, Returned(delta))]
        /\ UNCHANGED otherDelta

\* lines 253-255: remove_client(client_id)
RemoveClient(client) ==
    /\ client_snapshots' = [client_snapshots EXCEPT ![client] = NoSnapshot]
    /\ lastDelta' = NoDelta
    /\ lastCall' = [op |-> "remove_client", client |-> client,
                    old |-> client_snapshots[client], new |-> NoSnapshot.data,
                    afterRemove |-> FALSE]
    /\ dropped' = IF client_snapshots[client].some
                  THEN dropped \cup {client}
                  ELSE dropped
    /\ UNCHANGED mirror
    /\ UNCHANGED otherDelta

NextDelta ==
    \/ \E client \in DeltaClients, s \in Snapshots : ComputeDelta(client, s)
    \/ \E client \in DeltaClients : RemoveClient(client)

(***************************************************************************)
(* Claims about the delta tracker                                          *)
(***************************************************************************)

\* C16: the first compute_delta call for a client that has no stored
\* snapshot (a new client, or one whose snapshot remove_client dropped)
\* returns a delta with clear_screen set that holds every line of the
\* snapshot, numbered 0..n-1 in order, and the cursor row, the cursor column
\* and the viewport top.
C16_FirstDeltaSendsEverything ==
    (lastCall.op = "compute_delta" /\ ~lastCall.old.some) =>
        /\ lastDelta.some
        /\ lastDelta.data.clear_screen
        /\ Len(lastDelta.data.changes) = Len(lastCall.new.lines)
        /\ \A i \in 1..Len(lastCall.new.lines) :
               /\ lastDelta.data.changes[i].line_number = i - 1
               /\ lastDelta.data.changes[i].content =
                      lastCall.new.lines[i].content
               /\ lastDelta.data.changes[i].hash = lastCall.new.lines[i].hash
        /\ lastDelta.data.cursor_row = Present(lastCall.new.cursor_row)
        /\ lastDelta.data.cursor_col = Present(lastCall.new.cursor_col)
        /\ lastDelta.data.viewport_top = Present(lastCall.new.viewport_top)

\* a client whose snapshot remove_client dropped sends a snapshot of
\* MaxLines lines while the other client has a snapshot stored
C16_Witness ==
    /\ lastCall.op = "compute_delta"
    /\ ~lastCall.old.some
    /\ lastCall.afterRemove
    /\ Len(lastCall.new.lines) = MaxLines
    /\ \A c \in DeltaClients : client_snapshots[c].some

\* C17: two consecutive compute_delta calls of a client with identical
\* snapshots (the empty snapshot included) make the second call return None.
C17_IdenticalSnapshotGivesNone ==
    (/\ lastCall.op = "compute_delta"
     /\ lastCall.old.some
     /\ lastCall.old.data = lastCall.new) => ~lastDelta.some

\* the same snapshot of MaxLines lines was sent twice in a row
C17_Witness ==
    /\ lastCall.op = "compute_delta"
    /\ lastCall.old.some
    /\ lastCall.old.data = lastCall.new
    /\ Len(lastCall.new.lines) = MaxLines
    /\ ~lastDelta.some

\* C18: whenever the new snapshot has fewer than half as many lines as the
\* snapshot stored for the client (2 * new_count < old_count), for odd and
\* even line counts, compute_delta returns a delta with clear_screen set
\* that holds every line of the new snapshot.
C18_FewerThanHalfClearsScreen ==
    (/\ lastCall.op = "compute_delta"
     /\ lastCall.old.some
     /\ 2 * Len(lastCall.new.lines) < Len(lastCall.old.data.lines))
        => /\ lastDelta.some
           /\ lastDelta.data.clear_screen
           /\ lastDelta.data.changes = AllLines(lastCall.new)

\* C19: in the line-by-line branch the change list is exactly one entry for
\* each line of the new snapshot whose hash differs from the stored line at
\* that index or that did not exist before, in increasing index order,
\* followed by one blanking entry (empty content) for each index in
\* [new_count, old_count); a line whose content equals the stored line at
\* that index is never sent again.
C19_LineByLineChangeList ==
    (/\ lastCall.op = "compute_delta"
     /\ lastCall.old.some
     /\ ~lastDelta.data.clear_screen) =>
        LET old_lines == lastCall.old.data.lines
            new_lines == lastCall.new.lines
            changes == lastDelta.data.changes
            changed == {idx \in 0..(Len(new_lines) - 1) :
                           \/ idx >= Len(old_lines)
                           \/ old_lines[idx + 1].hash # new_lines[idx + 1].hash}
            nChanged == Cardinality(changed)
            nBlank == IF Len(old_lines) > Len(new_lines)
                      THEN Len(old_lines) - Len(new_lines)
                      ELSE 0
        IN  /\ Len(changes) = nChanged + nBlank
            /\ {changes[k].line_number : k \in 1..nChanged} = changed
            /\ \A k \in 1..(nChanged - 1) :
                   changes[k].line_number < changes[k + 1].line_number
            /\ \A k \in 1..nChanged :
                   /\ changes[k].content =
                          new_lines[changes[k].line_number + 1].content
                   /\ changes[k].hash =
                          new_lines[changes[k].line_number + 1].hash
                   /\ changes[k].line_number < Len(old_lines) =>
                          changes[k].content #
                              old_lines[changes[k].line_number + 1].content
            /\ \A k \in 1..nBlank :
                   /\ changes[nChanged + k].line_number =
                          Len(new_lines) + k - 1
                   /\ changes[nChanged + k].content = ""

\* a call in the line-by-line branch returned a changed line followed by a
\* blanking entry
C19_Witness ==
    /\ lastCall.op = "compute_delta"
    /\ lastCall.old.some
    /\ lastDelta.some
    /\ ~lastDelta.data.clear_screen
    /\ Len(lastDelta.data.changes) = 2
    /\ lastDelta.data.changes[1].content = "a"
    /\ lastDelta.data.changes[2].line_number = 1
    /\ lastDelta.data.changes[2].hash = 0

\* the mirror m shows the snapshot: its content at every index below the
\* line count, blank content at and above it, its cursor and viewport top
MirrorHolds(m, snap) ==
    /\ \A idx \in 0..(MaxLines - 1) :
           m.lines[idx] = IF idx < Len(snap.lines)
                          THEN snap.lines[idx + 1].content
                          ELSE ""
    /\ m.cursor_row = snap.cursor_row
    /\ m.cursor_col = snap.cursor_col
    /\ m.viewport_top = snap.viewport_top

\* C34: after every compute_delta call of a client, the mirror built from
\* the deltas returned for it holds the content of the latest snapshot at
\* every index below its line count, blank content at every index at or
\* above it, and the snapshot's cursor row, cursor column and viewport top.
C34_DeltasRebuildSnapshot ==
    lastCall.op = "compute_delta" =>
        MirrorHolds(mirror[lastCall.client], lastCall.new)

\* C35: after compute_delta(client, snapshot) returns, with a delta or with
\* None, the snapshot stored for that client is the snapshot passed in, and
\* the stored snapshots of all other clients are unchanged.
C35_SnapshotAlwaysReplaced ==
    [][lastCall'.op = "compute_delta" =>
          /\ client_snapshots'[lastCall'.client] =
                 [some |-> TRUE, data |-> lastCall'.new]
          /\ \A c \in DeltaClients \ {lastCall'.client} :
                 client_snapshots'[c] = client_snapshots[c]]_vars

\* a call returned None for a snapshot of MaxLines lines, which is stored,
\* while the other client has a different snapshot of its own
C35_Witness ==
    /\ lastCall.op = "compute_delta"
    /\ ~lastDelta.some
    /\ client_snapshots[lastCall.client].data = lastCall.new
    /\ Len(lastCall.new.lines) = MaxLines
    /\ \E c \in DeltaClients \ {lastCall.client} :
           /\ client_snapshots[c].some
           /\ client_snapshots[c].data # lastCall.new

(***************************************************************************)
(* TmuxControlMode (src/tmux_control.rs): send_command and the reader task *)
(***************************************************************************)
Callers == {"u1", "u2"}

\* commands issued in one run
MaxCmdId == 3

CmdIds == 1..MaxCmdId

\* line 146: timeout(Duration::from_secs(5), rx)
COMMAND_TIMEOUT_SECS == 5

NoCaller == ""

\* lines 81, 96: the lines of tmux the reader task acts on; "%error" is
\* handled by the same branch as "%done"
LineKinds == {"output", "done"}

NoOutcome == [kind |-> "none", from |-> 0]

CtlIdle ==
    /\ cmd_id = 0
    /\ pending = [i \in CmdIds |-> NoCaller]
    /\ stdinOwner = NoCaller
    /\ ctlPc = [c \in Callers |-> "idle"]
    /\ ctlId = [c \in Callers |-> 0]
    /\ ctlWaited = [c \in Callers |-> 0]
    /\ rxFrom = [c \in Callers |-> 0]
    /\ wrote = [i \in CmdIds |-> 0]
    /\ answered = {}
    /\ unmatched = {}
    /\ outcome = [i \in CmdIds |-> NoOutcome]

\* lines 62, 117-125
CtlInit == CtlIdle

otherCtl == <<utfVars, bufVars, cliVars, inVars, mgrVars, ringVars, deltaVars,
              parseVars, combineVars>>

\* lines 131-138: the next command id, a oneshot channel, and the entry of
\* the pending map that holds the channel's sender
SendBegin(c) ==
    /\ ctlPc[c] = "idle"
    /\ cmd_id < MaxCmdId
    /\ cmd_id' = cmd_id + 1
    /\ ctlId' = [ctlId EXCEPT ![c] = cmd_id + 1]
    /\ pending' = [pending EXCEPT ![cmd_id + 1] = c]
    /\ rxFrom' = [rxFrom EXCEPT ![c] = 0]
    /\ ctlPc' = [ctlPc EXCEPT ![c] = "locking"]
    /\ UNCHANGED <<stdinOwner, ctlWaited, wrote, answered, unmatched, outcome>>
    /\ UNCHANGED otherCtl

\* the locals of a call (cmd_id, rx, the timer) end with the call.
\* lines 141-143: the stdin mutex is taken, and held until send_command
\* returns; the command is written once. A failed write returns the error
\* (the ? operator) and leaves the entry in the pending map
SendWrite(c) ==
    /\ ctlPc[c] = "locking"
    /\ stdinOwner = NoCaller
    /\ \E ok \in BOOLEAN :
         IF ok
           THEN /\ stdinOwner' = c
                /\ wrote' = [wrote EXCEPT ![ctlId[c]] = @ + 1]
                /\ ctlWaited' = [ctlWaited EXCEPT ![c] = 0]
                /\ ctlPc' = [ctlPc EXCEPT ![c] = "waiting"]
                /\ UNCHANGED <<outcome, ctlId>>
           ELSE /\ outcome' = [outcome EXCEPT ![ctlId[c]] =
                                   [kind |-> "io_error", from |-> 0]]
                /\ ctlPc' = [ctlPc EXCEPT ![c] = "idle"]
                /\ ctlId' = [ctlId EXCEPT ![c] = 0]
                /\ UNCHANGED <<stdinOwner, wrote, ctlWaited>>
    /\ UNCHANGED <<cmd_id, pending, rxFrom, answered, unmatched>>
    /\ UNCHANGED otherCtl

\* the receiver of the caller's oneshot channel exists from line 137 until
\* the timeout future is dropped
RxAlive(c) == ctlPc[c] \in {"locking", "waiting"}

\* lines 89, 101: pending_clone.remove(&cmd_id) gives the sender stored
\* under this id, if there is one
Lookup_AnyPending(p, id) ==
    IF p[id] # NoCaller THEN p[id]
    ELSE IF \E j \in CmdIds : p[j] # NoCaller
           THEN p[CHOOSE j \in CmdIds : p[j] # NoCaller]
           ELSE NoCaller
Lookup(p, id) == p[id]

\* lines 72-107: tmux answers a command it was sent, and the reader task
\* handles the line: the entry of the id is removed and the data sent over
\* its channel; a line whose id has no entry is dropped
TmuxLine(kind, id) ==
    /\ wrote[id] > 0
    /\ <<kind, id>> \notin answered
    /\ answered' = answered \cup {<<kind, id>>}
    /\ LET c == Lookup(pending, id) IN
         IF c = NoCaller
           THEN /\ unmatched' = unmatched \cup {<<kind, id>>}
                /\ UNCHANGED <<pending, rxFrom>>
           ELSE /\ pending' = [pending EXCEPT ![id] = NoCaller]
                /\ rxFrom' = IF RxAlive(c) /\ rxFrom[c] = 0
                               THEN [rxFrom EXCEPT ![c] = id]
                               ELSE rxFrom
                /\ UNCHANGED unmatched
    /\ UNCHANGED <<cmd_id, ctlId, stdinOwner, ctlPc, ctlWaited, wrote, outcome>>
    /\ UNCHANGED otherCtl

\* lines 146-147: the response arrived in time
SendReceive(c) ==
    /\ ctlPc[c] = "waiting"
    /\ rxFrom[c] # 0
    /\ outcome' = [outcome EXCEPT ![ctlId[c]] = [kind |-> "ok", from |-> rxFrom[c]]]
    /\ ctlPc' = [ctlPc EXCEPT ![c] = "idle"]
    /\ stdinOwner' = NoCaller
    /\ ctlId' = [ctlId EXCEPT ![c] = 0]
    /\ ctlWaited' = [ctlWaited EXCEPT ![c] = 0]
    /\ rxFrom' = [rxFrom EXCEPT ![c] = 0]
    /\ UNCHANGED <<cmd_id, pending, wrote, answered, unmatched>>
    /\ UNCHANGED otherCtl

\* line 146: a second passes for the commands that wait; the timer of
\* timeout() fires when its duration has passed
CtlTick ==
    /\ \E c \in Callers : ctlPc[c] = "waiting"
    /\ \A c \in Callers : ctlPc[c] = "waiting" => ctlWaited[c] < COMMAND_TIMEOUT_SECS
    /\ ctlWaited' = [c \in Callers |->
                       IF ctlPc[c] = "waiting" THEN ctlWaited[c] + 1 ELSE ctlWaited[c]]
    /\ UNCHANGED <<cmd_id, ctlId, pending, stdinOwner, ctlPc, rxFrom, wrote,
                   answered, unmatched, outcome>>
    /\ UNCHANGED otherCtl

\* lines 146, 149: timeout() polls the receiver first and gives Err(Elapsed)
\* when no value is there and the time is over; the receiver is dropped
SendExpire(c) ==
    /\ ctlPc[c] = "waiting"
    /\ ctlWaited[c] = COMMAND_TIMEOUT_SECS
    /\ rxFrom[c] = 0
    /\ ctlPc' = [ctlPc EXCEPT ![c] = "expired"]
    /\ UNCHANGED <<cmd_id, ctlId, pending, stdinOwner, ctlWaited, rxFrom, wrote,
                   answered, unmatched, outcome>>
    /\ UNCHANGED otherCtl

\* lines 150-151: the entry is removed and the error returned
SendTimeout(c) ==
    /\ ctlPc[c] = "expired"
    /\ pending' = [pending EXCEPT ![ctlId[c]] = NoCaller]
    /\ outcome' = [outcome EXCEPT ![ctlId[c]] = [kind |-> "timeout", from |-> 0]]
    /\ ctlPc' = [ctlPc EXCEPT ![c] = "idle"]
    /\ stdinOwner' = NoCaller
    /\ ctlId' = [ctlId EXCEPT ![c] = 0]
    /\ ctlWaited' = [ctlWaited EXCEPT ![c] = 0]
    /\ rxFrom' = [rxFrom EXCEPT ![c] = 0]
    /\ UNCHANGED <<cmd_id, wrote, answered, unmatched>>
    /\ UNCHANGED otherCtl

NextCtl ==
    \/ \E c \in Callers : SendBegin(c)
    \/ \E c \in Callers : SendWrite(c)
    \/ \E kind \in LineKinds : \E id \in CmdIds : TmuxLine(kind, id)
    \/ \E c \in Callers : SendReceive(c)
    \/ CtlTick
    \/ \E c \in Callers : SendExpire(c)
    \/ \E c \in Callers : SendTimeout(c)

\* C22: a command waits at most 5 seconds for its response; a command that
\* timed out has no entry in the pending map, returned the timeout error and
\* was written once, no command is written twice; and a response is only
\* ever handed to the command whose id it carries, so the late response of a
\* timed-out command reaches no other command.
C22_TimeoutDropsCommand ==
    /\ \A c \in Callers : ctlWaited[c] <= COMMAND_TIMEOUT_SECS
    /\ \A id \in CmdIds :
         /\ wrote[id] <= 1
         /\ outcome[id].kind = "timeout" => pending[id] = NoCaller /\ wrote[id] = 1
         /\ outcome[id].kind = "ok" => outcome[id].from = id
    /\ \A c \in Callers : rxFrom[c] # 0 => rxFrom[c] = ctlId[c]

\* a command timed out, its response came late and was dropped, and
\* another command was waiting for its own response
C22_Witness ==
    \E id \in CmdIds : \E c \in Callers :
        /\ outcome[id].kind = "timeout"
        /\ <<"output", id>> \in unmatched
        /\ ctlPc[c] = "waiting"
        /\ ctlId[c] # id
        /\ pending[ctlId[c]] = c

(***************************************************************************)
(* TerminalDeltaTracker::parse_terminal_output (src/terminal_delta.rs)     *)
(* Characters are one-character strings; "ESC", "LF" and "CR" stand for    *)
(* \x1b, \n and \r.                                                        *)
(***************************************************************************)
\* tokens per input
MaxTokens == 3

\* line 9
MAX_LINES == 10000

\* line 149: cursor_row.saturating_sub(24)
VIEWPORT_ROWS == 24

\* the pieces an input is put together from: text, line ends, and the
\* recognized sequences ESC[2;2H, ESC[K and ESC[2J
Tokens ==
    { <<"x">>, <<"y">>, <<"LF">>, <<"CR">>,
      <<"ESC", "[", "2", ";", "2", "H">>, <<"ESC", "[", "K">>,
      <<"ESC", "[", "2", "J">> }

\* sequences not recognized by lines 75-99: a CSI sequence that ends in the
\* letter m, and ESC followed by the single character 7
Unrecognized == { <<"ESC", "[", "3", "m">>, <<"ESC", "7">> }

TokenSeqs == UNION {[1..n -> Tokens] : n \in 0..MaxTokens}

RECURSIVE Flatten(_)
Flatten(toks) == IF toks = <<>> THEN <<>> ELSE Head(toks) \o Flatten(Tail(toks))

\* the input with esc put in after the first at tokens of toks
Inserted(toks, at, esc) ==
    Flatten(SubSeq(toks, 1, at)) \o esc \o Flatten(SubSeq(toks, at + 1, Len(toks)))

\* line 73: char::is_ascii_alphabetic, on the characters used here
IsAsciiAlphabetic(ch) == ch \in {"x", "y", "H", "f", "J", "K", "m"}

Digits == {"0", "1", "2", "3", "7"}

DigitValue(ch) ==
    CASE ch = "0" -> 0 [] ch = "1" -> 1 [] ch = "2" -> 2 [] ch = "3" -> 3
      [] OTHER -> 7

RECURSIVE Decimal(_)
Decimal(part) ==
    IF part = <<>> THEN 0
    ELSE 10 * Decimal(SubSeq(part, 1, Len(part) - 1)) + DigitValue(part[Len(part)])

\* lines 80-81: parts[k].parse::<usize>().unwrap_or(1).saturating_sub(1)
ParsedPosition(part) ==
    IF part # <<>> /\ \A k \in 1..Len(part) : part[k] \in Digits
    THEN SatSub(Decimal(part), 1)
    ELSE 0

\* line 78: seq.split(';'), its first two parts when there are two
SplitParts(seq) ==
    LET semis == {k \in 1..Len(seq) : seq[k] = ";"}
        s1 == CHOOSE k \in semis : \A j \in semis : k <= j
        rest == {k \in semis : k > s1}
        s2 == IF rest = {} THEN Len(seq) + 1
              ELSE CHOOSE k \in rest : \A j \in rest : k <= j
    IN  IF semis = {} THEN <<>>
        ELSE << SubSeq(seq, 1, s1 - 1), SubSeq(seq, s1 + 1, s2 - 1) >>

\* lines 110-112, 135-137: a finished line; the hash stands for xxh3_64 of
\* the content
ParsedLine(content) ==
    [content |-> content, hash |-> IF content = <<>> THEN 1 ELSE 2]

\* lines 57-60
ParseStart == [lines |-> <<>>, current_line |-> <<>>, cursor_row |-> 0,
               cursor_col |-> 0]

\* lines 75-100: the command letter of a CSI sequence with parameters seq
CsiCommand(st, seq, cmd) ==
    CASE cmd \in {"H", "f"} ->
            IF SplitParts(seq) # <<>>
            THEN [st EXCEPT !.cursor_row = ParsedPosition(SplitParts(seq)[1]),
                            !.cursor_col = ParsedPosition(SplitParts(seq)[2])]
            ELSE st
      [] cmd = "J" ->
            IF seq = <<"2">> THEN ParseStart ELSE st
      [] cmd = "K" ->
            IF seq = <<>> \/ seq = <<"0">>
            THEN [st EXCEPT !.current_line =
                     SubSeq(@, 1, Min(st.cursor_col, Len(@)))]
            ELSE st
      [] OTHER -> st

\* lines 108-116
NewLine(st) ==
    [st EXCEPT !.lines = Append(@, ParsedLine(st.current_line)),
               !.current_line = <<>>,
               !.cursor_row = @ + 1,
               !.cursor_col = 0]

\* lines 121-129: a regular character is appended, or replaces the one at
\* the cursor column
RegularChar(st, ch) ==
    [st EXCEPT !.current_line =
                   IF st.cursor_col >= Len(@) THEN Append(@, ch)
                   ELSE [@ EXCEPT ![st.cursor_col + 1] = ch],
               !.cursor_col = @ + 1]

\* lines 133-151: the remaining line, the history limit, the snapshot
ParseFinish(st) ==
    LET all == IF st.current_line # <<>> \/ st.cursor_row >= Len(st.lines)
               THEN Append(st.lines, ParsedLine(st.current_line))
               ELSE st.lines
        kept == IF Len(all) > MAX_LINES
                THEN SubSeq(all, Len(all) - MAX_LINES + 1, Len(all))
                ELSE all
    IN  [lines |-> kept, cursor_row |-> st.cursor_row,
         cursor_col |-> st.cursor_col,
         viewport_top |-> SatSub(st.cursor_row, VIEWPORT_ROWS)]

RECURSIVE ParseFrom(_, _, _)
\* lines 64-131: the loop, from the character at index i
ParseFrom(data, i, st) ==
    IF i > Len(data) THEN ParseFinish(st)
    ELSE LET ch == data[i] IN
      CASE ch = "ESC" ->
              IF i + 1 <= Len(data) /\ data[i + 1] = "["
              THEN LET alphas == {j \in (i + 2)..Len(data) :
                                     IsAsciiAlphabetic(data[j])}
                   IN  IF alphas = {}
                       THEN ParseFinish(st)
                       ELSE LET j == CHOOSE k \in alphas :
                                         \A l \in alphas : k <= l
                            IN  ParseFrom(data, j + 1,
                                    CsiCommand(st, SubSeq(data, i + 2, j - 1),
                                               data[j]))
              ELSE \* lines 68, 106-107: ESC alone is consumed
                   ParseFrom(data, i + 1, st)
        [] ch = "LF" -> ParseFrom(data, i + 1, NewLine(st))
        [] ch = "CR" -> ParseFrom(data, i + 1, [st EXCEPT !.cursor_col = 0])
        [] OTHER -> ParseFrom(data, i + 1, RegularChar(st, ch))

\* lines 56-152
parse_terminal_output(data) == ParseFrom(data, 1, ParseStart)

NotParsed == [done |-> FALSE, snapshot |-> ParseFinish(ParseStart)]

otherParse == <<utfVars, bufVars, cliVars, inVars, mgrVars, ringVars, deltaVars,
                ctlVars, combineVars>>

ParseIdle ==
    /\ pTokens = <<>>
    /\ pAt = 0
    /\ pEsc = <<>>
    /\ pPlain = NotParsed
    /\ pWith = NotParsed

\* an input, a place between its tokens and an unrecognized sequence
ParseInit ==
    /\ pTokens \in TokenSeqs
    /\ pAt \in 0..Len(pTokens)
    /\ pEsc \in Unrecognized
    /\ pPlain = NotParsed
    /\ pWith = NotParsed

\* parse_terminal_output on the input as it is
ParsePlain ==
    /\ ~pPlain.done
    /\ pPlain' = [done |-> TRUE, snapshot |-> parse_terminal_output(Flatten(pTokens))]
    /\ UNCHANGED <<pTokens, pAt, pEsc, pWith>>
    /\ UNCHANGED otherParse

\* parse_terminal_output on the input with the sequence put in
ParseWithEscape ==
    /\ ~pWith.done
    /\ pWith' = [done |-> TRUE,
                 snapshot |-> parse_terminal_output(Inserted(pTokens, pAt, pEsc))]
    /\ UNCHANGED <<pTokens, pAt, pEsc, pPlain>>
    /\ UNCHANGED otherParse

NextParse == ParsePlain \/ ParseWithEscape

\* C36: putting an unrecognized escape sequence into the input leaves the
\* snapshot returned by parse_terminal_output unchanged (same lines, same
\* cursor row and column), and no ESC character is in any line.
C36_UnrecognizedEscapeIsSkipped ==
    (pPlain.done /\ pWith.done) =>
        /\ pWith.snapshot = pPlain.snapshot
        /\ \A k \in 1..Len(pWith.snapshot.lines) :
               "ESC" \notin Range(pWith.snapshot.lines[k].content)

(***************************************************************************)
(* combine_terminal_outputs (src/websocket/optimized.rs), applied to the   *)
(* messages process_message_batches has grouped for one client.  A payload *)
(* is kept run-length encoded, as a sequence of runs <<byte, count>> in    *)
(* which neighbouring runs differ in their byte, so that payloads around   *)
(* MAX_MESSAGE_SIZE bytes are small values.                                *)
(***************************************************************************)
\* line 34
MAX_MESSAGE_SIZE == 1048576

\* messages per batch of one client
MaxBatchLen == 3

RECURSIVE PayloadLen(_)
\* Bytes::len
PayloadLen(p) ==
    IF p = <<>> THEN 0 ELSE p[1][2] + PayloadLen(Tail(p))

\* line 292: BytesMut::extend_from_slice
ExtendFromSlice(buf, data) ==
    IF buf = <<>> THEN data
    ELSE IF data = <<>> THEN buf
    ELSE IF buf[Len(buf)][1] = data[1][1]
    THEN SubSeq(buf, 1, Len(buf) - 1)
         \o <<(<<data[1][1], buf[Len(buf)][2] + data[1][2]>>)>>
         \o Tail(data)
    ELSE buf \o data

Payloads ==
    {<<>>, <<(<<"a", 1>>)>>, <<(<<"b", 1>>)>>,
     <<(<<"a", MAX_MESSAGE_SIZE - 1>>)>>, <<(<<"b", MAX_MESSAGE_SIZE>>)>>,
     <<(<<"a", MAX_MESSAGE_SIZE + 1>>)>>}

\* lines 50-57: OptimizedMessage
TerminalOutput(data) == [kind |-> "TerminalOutput", data |-> data]

BatchMessages ==
    {TerminalOutput(p) : p \in Payloads}
    \cup {[kind |-> "Json", data |-> <<(<<"j", 1>>)>>],
          [kind |-> "Binary", data |-> <<(<<"a", 1>>)>>]}

Batches == UNION {[1..n -> BatchMessages] : n \in 0..MaxBatchLen}

\* lines 287-290, 295-298, 304-306: the pending terminal output is pushed
Flushed(st) ==
    IF st.terminal_buffer # <<>>
    THEN [result |-> Append(st.result, TerminalOutput(st.terminal_buffer)),
          terminal_buffer |-> <<>>]
    ELSE st

\* lines 284-301: one iteration of the loop over the messages
CombineStep(st, msg) ==
    IF msg.kind = "TerminalOutput"
    THEN LET s1 == IF PayloadLen(st.terminal_buffer) + PayloadLen(msg.data)
                         > MAX_MESSAGE_SIZE
                   THEN Flushed(st) ELSE st
         IN  [s1 EXCEPT !.terminal_buffer = ExtendFromSlice(@, msg.data)]
    ELSE [Flushed(st) EXCEPT !.result = Append(@, msg)]

RECURSIVE CombineFrom(_, _, _)
CombineFrom(messages, i, st) ==
    IF i > Len(messages) THEN st
    ELSE CombineFrom(messages, i + 1, CombineStep(st, messages[i]))

\* lines 279-309
combine_terminal_outputs(messages) ==
    Flushed(CombineFrom(messages, 1,
                        [result |-> <<>>, terminal_buffer |-> <<>>])).result

RECURSIVE JoinedFrom(_, _, _)
\* what a batch carries: its messages in order, with the payloads of
\* neighbouring terminal outputs taken together and empty ones left out
JoinedFrom(messages, i, acc) ==
    IF i > Len(messages) THEN acc
    ELSE LET msg == messages[i]
             n == Len(acc)
         IN  IF msg.kind # "TerminalOutput"
             THEN JoinedFrom(messages, i + 1, Append(acc, msg))
             ELSE IF msg.data = <<>>
             THEN JoinedFrom(messages, i + 1, acc)
             ELSE IF n > 0 /\ acc[n].kind = "TerminalOutput"
             THEN JoinedFrom(messages, i + 1,
                      [acc EXCEPT ![n] = TerminalOutput(
                          ExtendFromSlice(acc[n].data, msg.data))])
             ELSE JoinedFrom(messages, i + 1, Append(acc, msg))

Joined(messages) == JoinedFrom(messages, 1, <<>>)

NotCombined == [done |-> FALSE, result |-> <<>>]

otherCombine == <<utfVars, bufVars, cliVars, inVars, mgrVars, ringVars, deltaVars,
                  ctlVars, parseVars>>

CombineIdle ==
    /\ clientBatch = <<>>
    /\ combinedOut = NotCombined

CombineInit ==
    /\ clientBatch \in Batches
    /\ combinedOut = NotCombined

\* lines 264-267: the messages of one client are combinedOut
Combine ==
    /\ ~combinedOut.done
    /\ combinedOut' = [done |-> TRUE,
                    result |-> combine_terminal_outputs(clientBatch)]
    /\ UNCHANGED clientBatch
    /\ UNCHANGED otherCombine

NextCombine == Combine

\* the payloads of the result, with neighbouring terminal outputs taken
\* together, are those of the batch, and the other messages stand where they
\* stood between them
ContentAndOrderKept ==
    Joined(combinedOut.result) = Joined(clientBatch)

\* neighbouring terminal outputs are one message as far as the size limit
\* allows
NeighboursMerged ==
    \A i \in 1..(Len(combinedOut.result) - 1) :
        (combinedOut.result[i].kind = "TerminalOutput"
         /\ combinedOut.result[i + 1].kind = "TerminalOutput")
            => PayloadLen(combinedOut.result[i].data)
               + PayloadLen(combinedOut.result[i + 1].data) > MAX_MESSAGE_SIZE

\* no terminal output of the result is larger than the maximum message size
SizeBounded ==
    \A i \in 1..Len(combinedOut.result) :
        combinedOut.result[i].kind = "TerminalOutput"
            => PayloadLen(combinedOut.result[i].data) <= MAX_MESSAGE_SIZE

\* C39: combine_terminal_outputs keeps content and order, merges neighbouring
\* terminal outputs into one message, and produces no terminal output of more
\* than MAX_MESSAGE_SIZE bytes.
C39_CombineKeepsContentAndBound ==
    combinedOut.done => (ContentAndOrderKept /\ NeighboursMerged /\ SizeBounded)

(***************************************************************************)
(* Specifications                                                          *)
(***************************************************************************)
InitUtf8 == UtfInit /\ BufIdle /\ CliIdle /\ InIdle /\ MgrIdle
    /\ RingIdle /\ DeltaIdle /\ CtlIdle /\ ParseIdle /\ CombineIdle

SpecUtf8 == InitUtf8 /\ [][NextUtf8]_vars

InitBuf == UtfIdle /\ BufInit /\ CliIdle /\ InIdle /\ MgrIdle
    /\ RingIdle /\ DeltaIdle /\ CtlIdle /\ ParseIdle /\ CombineIdle

SpecBuf == InitBuf /\ [][NextBuf]_vars

\* a reader that keeps consuming: its read calls are taken again and again
FairSpecBuf ==
    SpecBuf /\ \A r \in ReaderIds : WF_vars(ReaderStep(r))

InitCli == UtfIdle /\ BufIdle /\ CliInit /\ InIdle /\ MgrIdle
    /\ RingIdle /\ DeltaIdle /\ CtlIdle /\ ParseIdle /\ CombineIdle

SpecCli == InitCli /\ [][NextCli]_vars

InitInput == UtfIdle /\ BufIdle /\ CliIdle /\ InInit /\ MgrIdle
    /\ RingIdle /\ DeltaIdle /\ CtlIdle /\ ParseIdle /\ CombineIdle

SpecInput == InitInput /\ [][NextInput]_vars

InitMgr == UtfIdle /\ BufIdle /\ CliIdle /\ InIdle /\ MgrInit
    /\ RingIdle /\ DeltaIdle /\ CtlIdle /\ ParseIdle /\ CombineIdle

SpecMgr == InitMgr /\ [][NextMgr]_vars

\* timers fire and the clock runs on
FairSpecMgr ==
    /\ SpecMgr
    /\ WF_vars(Tick)
    /\ \A k \in TaskIds : WF_vars(IdleExpire(k)) /\ WF_vars(IdleRemove(k))

InitDelta ==
    UtfIdle /\ BufIdle /\ CliIdle /\ InIdle /\ MgrIdle /\ RingIdle /\ DeltaInit
    /\ CtlIdle /\ ParseIdle /\ CombineIdle

SpecDelta == InitDelta /\ [][NextDelta]_vars

InitRing ==
    UtfIdle /\ BufIdle /\ CliIdle /\ InIdle /\ MgrIdle /\ RingInit /\ DeltaIdle
    /\ CtlIdle /\ ParseIdle /\ CombineIdle

SpecRing == InitRing /\ [][NextRing]_vars

\* a call that has begun goes on: the reader's task and the writer's task
\* are scheduled again and again
FairSpecRing ==
    /\ SpecRing
    /\ WF_vars(RingWriteStep)
    /\ \A q \in TReaders : WF_vars(TReaderStep(q))

InitCtl ==
    UtfIdle /\ BufIdle /\ CliIdle /\ InIdle /\ MgrIdle /\ RingIdle /\ DeltaIdle
    /\ CtlInit /\ ParseIdle /\ CombineIdle

SpecCtl == InitCtl /\ [][NextCtl]_vars

InitParse ==
    UtfIdle /\ BufIdle /\ CliIdle /\ InIdle /\ MgrIdle /\ RingIdle /\ DeltaIdle
    /\ CtlIdle /\ ParseInit /\ CombineIdle

SpecParse == InitParse /\ [][NextParse]_vars

InitCombine ==
    UtfIdle /\ BufIdle /\ CliIdle /\ InIdle /\ MgrIdle /\ RingIdle /\ DeltaIdle
    /\ CtlIdle /\ ParseIdle /\ CombineInit

SpecCombine == InitCombine /\ [][NextCombine]_vars

\* one reader; the writer writes on and the reader reads on: calls are
\* made again and again and a call that has begun goes on
BusySpecRing ==
    /\ InitRing
    /\ [][NextRingSolo]_vars
    /\ WF_vars(RingWriteBegin)
    /\ WF_vars(RingWriteStep)
    /\ WF_vars(ReadCall(SoloReader))
    /\ WF_vars(TReaderStep(SoloReader))

=============================================================================
